---- MODULE Spec2Model ----
(***************************************************************************)
(* State-machine model of the secondary-index subsystem:                   *)
(*   - the dataport server (gen-server actor, listener, per-connection     *)
(*     readers) of src/secondary/adminport/admin_stats.go, package         *)
(*     dataport;                                                           *)
(*   - the index coordinator of src/secondary/manager/coordinator.go.      *)
(* Each subsystem has its own specification over its own variables; the    *)
(* variables of the other subsystems stay at their initial values.         *)
(***************************************************************************)
EXTENDS Integers, Sequences, FiniteSets, Bags, TLC

(***************************************************************************)
(* Bounds of the dataport model.                                           *)
(***************************************************************************)
\* sockets the listener accepts from one remote address
MaxGen == 1
\* sockets the listener accepts in all
MaxConns == 2
\* frames the remotes send in all
MaxFrames == 2
\* sockets the listener accepts again from a remote address it has closed
MaxReuse == 1
\* capacity of the gen-server queue reqch
ReqchCap == 2
\* capacity of the application-owned mutation channel
MutchCap == 1
\* Close() calls made by the application
MaxAppClose == 1
\* key-versions in one batch
MaxBatchLen == 1

(***************************************************************************)
(* Dataport: values.                                                       *)
(***************************************************************************)
\* remote addresses host:port, as <<host, port>>
RAddrs == { <<"h1", 1>>, <<"h1", 2>>, <<"h2", 1>> }
\* the empty remote address of a listener fault message
NoRaddr == <<"", 0>>
Socks == RAddrs \X (1..(MaxGen))
NoSock == <<NoRaddr, 0>>
\* bucketVbno values
BVBs == { <<"b1", 0>>, <<"b1", 1>>, <<"b2", 0>> }
Buckets == { bv[1] : bv \in BVBs }
\* net.SplitHostPort(raddr)
SplitHost(raddr) == raddr[1]

\* c.StreamBegin, c.StreamEnd, any other command, and a key-version with
\* an empty command list
CmdStreamBegin == "StreamBegin"
CmdStreamEnd == "StreamEnd"
CmdUpsert == "Upsert"
CmdNone == "none"
Commands == { CmdStreamBegin, CmdStreamEnd, CmdUpsert, CmdNone }

\* a []*VbKeyVersions batch, flattened to its key-versions: the bucket and
\* vbucket of the VbKeyVersions and the first command of the key-version
KeyVersions ==
    { [ bvb |-> <<"b1", 0>>, cmd |-> CmdStreamBegin ],
      [ bvb |-> <<"b1", 0>>, cmd |-> CmdStreamEnd ],
      [ bvb |-> <<"b2", 0>>, cmd |-> CmdStreamBegin ],
      [ bvb |-> <<"b1", 0>>, cmd |-> CmdUpsert ],
      [ bvb |-> <<"b1", 0>>, cmd |-> CmdNone ] }
BatchInputs == UNION { [ 1..n -> KeyVersions ] : n \in 0..MaxBatchLen }
\* a VbConnectionMap: one bucket and its vbucket list
VbmapInputs == { [ bucket |-> "b1", vbuckets |-> << 0, 1 >> ],
                 [ bucket |-> "b2", vbuckets |-> << 0 >> ] }
\* transport errors of pkt.Receive: io.EOF, a net.Error timeout, any other
ErrEOF == "EOF"
ErrTimeout == "timeout"
ErrReset == "reset"
ErrClosedConn == "use of closed connection"
ErrorPayload == "dataport.daemonPayload"
ErrorWorkerKilled == "dataport.workerKilled"
ErrorDaemonExit == "dataport.daemonExit"
ErrorDuplicateStreamBegin == "dataport.duplicateStreamBegin"
TransportErrors == { ErrEOF, ErrTimeout, ErrReset }

VARIABLES
    lis,          \* the listening socket: "open" or "closed"
    listenerPc,   \* the listener task: "accept" or "exited"
    gens,         \* sockets accepted so far per remote address
    reqch,        \* the gen-server queue
    actorPc,      \* the gen-server: "running" or "exited"
    conns,        \* s.conns: remote address -> socket, NoSock when absent
    remoteUuids,  \* remote address -> sequence of bucketVbno
    sockClosed,   \* sockets closed by this process
    workerClosed, \* sockets whose netConn.worker channel is closed
    readers,      \* bag of running doReceive tasks
    frames,       \* frames received so far
    mutch,        \* the application mutation channel
    sbch,         \* every sideband event sent, in order
    finch,        \* TRUE once s.finch is closed
    closers,      \* how many Close() calls are in progress at "send" (the
                  \* select on reqch and finch), at "wait" (the select on
                  \* respch and finch) and at "replied" (waiting, with the
                  \* response in respch)
    appCloses,    \* Close() calls the application has made
    vbmapped,     \* history: the pairs a vbmap registered, per remote address
    crashed       \* TRUE once an unrecovered panic killed the process

dpVars == << lis, listenerPc, gens, reqch, actorPc, conns, remoteUuids,
             sockClosed, workerClosed, readers, frames, mutch, sbch, finch,
             closers, appCloses, vbmapped, crashed >>

VARIABLES
    repo,         \* the metadata repository (c.repo): index definitions,
                  \* bucket topologies, global topology, instance-id counter
    applied,      \* ADD_IDX_DEFN / DEL_IDX_DEFN applications so far
    lastApply,    \* history: the latest application and its result
    prevApply     \* history: the application before it

tpVars == << repo, applied, lastApply, prevApply >>

VARIABLES
    config,       \* the config document (c.config): acceptedEpoch, currentEpoch
    winningEpoch, \* the election site's winning epoch
    txnEpoch,     \* the epoch of the txn-state (c.txn)
    restarts,     \* coordinator restarts so far
    lastCall      \* history: the last epoch callback and the epochs stored
                  \* before it

epVars == << config, winningEpoch, txnEpoch, restarts, lastCall >>

VARIABLES
    runPc,        \* position of Run / runOnce
    cycles,       \* bootstraps so far
    stateNil,     \* TRUE while c.state is nil
    done,         \* c.state.done
    status,       \* c.state.status
    leader,       \* runOnce's local variable leader, "" outside its scope
    site,         \* c.site: "nil", "open" or "closed"
    configRepo,   \* c.configRepo: "nil" or "open"
    skillch,      \* number of values in c.skillch (capacity 1)
    ready,        \* c.ready
    terminates,   \* Terminate() calls so far
    callerPc,     \* position of each NewRequest call
    reqIdOf,      \* request id of each caller's handle
    handleErr,    \* handle.Err # nil, per handle
    incomings,    \* c.state.incomings
    pendings,     \* c.state.pendings: request id -> handle
    proposals,    \* c.state.proposals: txnid -> handle
    sent,         \* requests the leader has received and not yet proposed
    nextTxn,      \* next txnid the leader allocates
    signals,      \* history: CondVar.Signal() calls per handle
    logged,       \* history: the proposal logged under each txnid
    commitSignalled,      \* history: handles signalled by a commit
    committedTxns,        \* history: txnids passed to Commit
    pastLatchAtTerminate, \* history: callers past waitForReady and not yet
                          \* signalled when Terminate set done
    lastSend              \* history: the latest send on incomings or skillch
                          \* and the mutexes its sender held

coVars == << runPc, cycles, stateNil, done, status, leader, site, configRepo,
             skillch, ready, terminates, callerPc, reqIdOf, handleErr,
             incomings, pendings, proposals, sent, nextTxn, signals, logged,
             commitSignalled, committedTxns, pastLatchAtTerminate, lastSend >>

VARIABLES
    srv,          \* the admin server: "none" before NewHTTPServer, "new",
                  \* "listening" (s.lis # nil) or "stopped" (after shutdown)
    urlPrefix,    \* s.urlPrefix
    messages,     \* s.messages: key -> message
    admLast,      \* history: the latest call on the admin server
    admPrev,      \* history: the call before it
    httpLast      \* history: the latest HTTP request and its answer

adVars == << srv, urlPrefix, messages, admLast, admPrev, httpLast >>

VARIABLES
    quorumCall    \* history: the latest HasQuorum call and its result

quVars == << quorumCall >>

VARIABLES
    cdPc,         \* the daemon: "new", "waiting" (in the select of loop),
                  \* "ticked" (after the tick's for loop, before timer.Reset)
                  \* or "stopped"
    cdConfig,     \* cd.config
    wallClock,    \* what time.Now() returns
    lastTick      \* history: the statistics of the latest tick and the
                  \* instances it sent MsgIndexCompact for

cmVars == << cdPc, cdConfig, wallClock, lastTick >>

\* the variables of the other subsystems
nonDp == << coVars, epVars, tpVars, adVars, quVars, cmVars >>
nonTp == << dpVars, coVars, epVars, adVars, quVars, cmVars >>
nonEp == << dpVars, coVars, tpVars, adVars, quVars, cmVars >>
nonCo == << dpVars, epVars, tpVars, adVars, quVars, cmVars >>
nonCoTp == << dpVars, epVars, adVars, quVars, cmVars >>
nonAd == << dpVars, coVars, epVars, tpVars, quVars, cmVars >>
nonQu == << dpVars, coVars, epVars, tpVars, adVars, cmVars >>
nonCm == << dpVars, coVars, epVars, tpVars, adVars, quVars >>

vars == << dpVars, coVars, epVars, tpVars, adVars, quVars, cmVars >>

\* what a dataport step that registers no vbmap leaves alone besides the
\* variables it lists
nonVbmap == << vbmapped, nonDp >>

(***************************************************************************)
(* Dataport: messages to the gen-server (serverMessage).                   *)
(***************************************************************************)
serverCmdNewConnection == "NewConnection"
serverCmdVbmap == "Vbmap"
serverCmdVbcontrol == "Vbcontrol"
serverCmdError == "Error"
serverCmdClose == "Close"

NoVbmap == [ bucket |-> "", vbuckets |-> << >> ]
Msg(cmd, raddr) ==
    [ cmd |-> cmd, raddr |-> raddr, sock |-> NoSock, vbmap |-> NoVbmap,
      started |-> << >>, finished |-> << >>, err |-> "" ]

NewConnectionMsg(sock) == [ Msg(serverCmdNewConnection, sock[1]) EXCEPT !.sock = sock ]
VbmapMsg(raddr, vbmap) == [ Msg(serverCmdVbmap, raddr) EXCEPT !.vbmap = vbmap ]
VbcontrolMsg(raddr, started, finished) ==
    [ Msg(serverCmdVbcontrol, raddr) EXCEPT !.started = started, !.finished = finished ]
ErrorMsg(raddr, err) == [ Msg(serverCmdError, raddr) EXCEPT !.err = err ]
CloseMsg == Msg(serverCmdClose, NoRaddr)

(***************************************************************************)
(* Dataport: pure helpers of the gen-server.                               *)
(***************************************************************************)
InConns(cs, raddr) == raddr \in RAddrs /\ cs[raddr] # NoSock

\* the elements of a sequence
Range(seq) == { seq[i] : i \in DOMAIN seq }

\* every enumeration of a finite set without repetition (the orders a Go
\* map iteration can produce)
Perms(S) == { p \in [ 1..Cardinality(S) -> S ] : Range(p) = S }

\* addUuids: ErrorDuplicateStreamBegin when a started pair is already in
\* uuids, else uuids with started appended
addUuids(started, uuids) ==
    IF \E i \in DOMAIN started : \E j \in DOMAIN uuids : uuids[j] = started[i]
    THEN [ err |-> ErrorDuplicateStreamBegin, uuids |-> << >> ]
    ELSE [ err |-> "", uuids |-> uuids \o started ]

\* delUuids: uuids without the finished pairs
delUuids(finished, uuids) ==
    SelectSeq(uuids, LAMBDA u : ~ \E i \in DOMAIN finished : finished[i] = u)

\* the pairs of the key-versions whose first command is cmd, in order
PairsWith(vbs, cmd) ==
    LET sel == SelectSeq(vbs, LAMBDA kv : kv.cmd = cmd)
    IN  [ i \in DOMAIN sel |-> sel[i].bvb ]

\* updateActiveVbuckets: kv.GetCommands()[0] of an empty command list is an
\* index out of range
updateActiveVbucketsPanics(vbs) == \E i \in DOMAIN vbs : vbs[i].cmd = CmdNone
updateActiveVbuckets(vbs) ==
    [ started |-> PairsWith(vbs, CmdStreamBegin),
      finished |-> PairsWith(vbs, CmdStreamEnd) ]

\* remoteConnections: the remote addresses of conns on host
remoteConnections(host, cs) ==
    { raddr \in RAddrs : cs[raddr] # NoSock /\ SplitHost(raddr) = host }

\* closeRemoteHost closing only the faulted socket, not the whole host
closeRemoteHost_onlyFaulted(raddr, cs) ==
    IF InConns(cs, raddr) THEN { raddr } ELSE { }

\* closeRemoteHost: the remote addresses it closes
closeRemoteHost(raddr, cs) ==
    IF InConns(cs, raddr) THEN remoteConnections(SplitHost(raddr), cs) ELSE { }

\* vbucketsForRemote: fold uuids into buckets, a map bucket -> vbucket list
RECURSIVE vbucketsForRemote(_, _)
vbucketsForRemote(uuids, buckets) ==
    IF uuids = << >> THEN buckets
    ELSE LET b == Head(uuids)[1]
             old == IF b \in DOMAIN buckets THEN buckets[b] ELSE << >>
             new == [ x \in (DOMAIN buckets) \cup { b } |->
                        IF x = b THEN Append(old, Head(uuids)[2]) ELSE buckets[x] ]
         IN  vbucketsForRemote(Tail(uuids), new)

\* the buckets map after the remotes of order have been folded in, in order
RECURSIVE vbucketsForOrder(_, _, _)
vbucketsForOrder(order, uuidsOf, buckets) ==
    IF order = << >> THEN buckets
    ELSE vbucketsForOrder(Tail(order), uuidsOf,
                          vbucketsForRemote(uuidsOf[Head(order)], buckets))

\* the sideband event: one entry per bucket of the buckets map
Event(kind, buckets) ==
    [ kind |-> kind,
      buckets |-> { [ Bucket |-> b, Vbuckets |-> buckets[b] ] : b \in DOMAIN buckets } ]

\* the empty buckets map
NoBuckets == [ b \in { } |-> << >> ]

\* every error taken as a fault of the remote only
IsCloseRemote_anyError(err) == err # ""

\* io.EOF and timeouts: close the remote host; anything else: close all
IsCloseRemote(err) == err = ErrEOF \/ err = ErrTimeout

(***************************************************************************)
(* Dataport: initial state (after NewServer).                              *)
(***************************************************************************)
\* a doReceive task: "recv" in pkt.Receive, "select" holding the batch vbs
\* (the frame numbered no) at the select on mutch and worker, "control"
\* after the batch is published, about to send serverCmdVbcontrol
Reader(sock) == [ sock |-> sock, pc |-> "recv", vbs |-> << >>, no |-> 0 ]

DpInit ==
    /\ lis = "open"
    /\ listenerPc = "accept"
    /\ gens = [ raddr \in RAddrs |-> 0 ]
    /\ reqch = << >>
    /\ actorPc = "running"
    /\ conns = [ raddr \in RAddrs |-> NoSock ]
    /\ remoteUuids = [ raddr \in RAddrs |-> << >> ]
    /\ sockClosed = { }
    /\ workerClosed = { }
    /\ readers = EmptyBag
    /\ frames = 0
    /\ mutch = << >>
    /\ sbch = << >>
    /\ finch = FALSE
    /\ closers = [ send |-> 0, wait |-> 0, replied |-> 0 ]
    /\ appCloses = 0
    /\ vbmapped = [ raddr \in RAddrs |-> { } ]
    /\ crashed = FALSE

(***************************************************************************)
(* Dataport: the listener task.                                            *)
(***************************************************************************)
\* lis.Accept() returns a connection: serverCmdNewConnection to reqch
ListenerAccept(raddr) ==
    /\ ~ crashed
    /\ listenerPc = "accept"
    /\ lis = "open"
    /\ gens[raddr] < MaxGen
    /\ Cardinality({ r \in RAddrs : gens[r] > 0 }) < MaxConns
    /\ Len(reqch) < ReqchCap
    /\ gens' = [ gens EXCEPT ![raddr] = @ + 1 ]
    /\ reqch' = Append(reqch, NewConnectionMsg(<< raddr, gens[raddr] + 1 >>))
    /\ UNCHANGED << lis, listenerPc, actorPc, conns, remoteUuids, sockClosed,
                    workerClosed, readers, frames, mutch, sbch, finch, closers,
                    appCloses, crashed >>
    /\ UNCHANGED nonVbmap

\* lis.Accept() returns a connection whose remote address is that of an
\* earlier connection this process has closed (the remote connects again
\* from the same port)
ListenerAcceptAgain(raddr) ==
    /\ ~ crashed
    /\ listenerPc = "accept"
    /\ lis = "open"
    /\ gens[raddr] >= 1
    /\ gens[raddr] < MaxGen + MaxReuse
    /\ << raddr, gens[raddr] >> \in sockClosed
    /\ Len(reqch) < ReqchCap
    /\ gens' = [ gens EXCEPT ![raddr] = @ + 1 ]
    /\ reqch' = Append(reqch, NewConnectionMsg(<< raddr, gens[raddr] + 1 >>))
    /\ UNCHANGED << lis, listenerPc, actorPc, conns, remoteUuids, sockClosed,
                    workerClosed, readers, frames, mutch, sbch, finch, closers,
                    appCloses, crashed >>
    /\ UNCHANGED nonVbmap

\* lis.Accept() fails (the listening socket was closed, or any other
\* fault): panic, and the deferred function sends serverCmdError with
\* ErrorDaemonExit and no remote address
ListenerFail ==
    /\ ~ crashed
    /\ listenerPc = "accept"
    /\ Len(reqch) < ReqchCap
    /\ reqch' = Append(reqch, ErrorMsg(NoRaddr, ErrorDaemonExit))
    /\ listenerPc' = "exited"
    /\ UNCHANGED << lis, gens, actorPc, conns, remoteUuids, sockClosed,
                    workerClosed, readers, frames, mutch, sbch, finch, closers,
                    appCloses, crashed >>
    /\ UNCHANGED nonVbmap

(***************************************************************************)
(* Dataport: the gen-server.                                               *)
(***************************************************************************)
\* a new Close() call: respch := make(chan, 1), then FailsafeOp
Spawn(cl) == [ cl EXCEPT !.send = @ + 1 ]

\* startWorker that starts no task
startWorker_noReader(cs, raddr, rds) ==
    [ crash |-> FALSE, readers |-> rds ]

\* startWorker: go doReceive(s.conns[raddr]); with raddr absent from
\* s.conns the netConn is the zero value and doReceive dereferences a nil
\* net.Conn, an unrecovered panic
startWorker(cs, raddr, rds) ==
    IF InConns(cs, raddr)
    THEN [ crash |-> FALSE, readers |-> rds (+) SetToBag({ Reader(cs[raddr]) }) ]
    ELSE [ crash |-> TRUE, readers |-> rds ]

\* the sockets of s.conns
ConnSocks(cs) == { cs[raddr] : raddr \in { r \in RAddrs : cs[r] # NoSock } }

\* handleClose leaving the listening socket open
handleClose_keepListener ==
    /\ lis' = lis
    /\ sockClosed' = sockClosed \cup ConnSocks(conns)
    /\ workerClosed' = workerClosed \cup ConnSocks(conns)
    /\ conns' = [ raddr \in RAddrs |-> NoSock ]
    /\ finch' = TRUE

\* handleClose leaving the connections of s.conns open
handleClose_keepConns ==
    /\ lis' = "closed"
    /\ sockClosed' = sockClosed
    /\ workerClosed' = workerClosed \cup ConnSocks(conns)
    /\ conns' = [ raddr \in RAddrs |-> NoSock ]
    /\ finch' = TRUE

\* handleClose: close the listener, every connection and worker channel,
\* drop s.conns, close s.finch
handleClose ==
    /\ lis' = "closed"
    /\ sockClosed' = sockClosed \cup ConnSocks(conns)
    /\ workerClosed' = workerClosed \cup ConnSocks(conns)
    /\ conns' = [ raddr \in RAddrs |-> NoSock ]
    /\ finch' = TRUE

ActorTakes(cmd) ==
    /\ ~ crashed
    /\ actorPc = "running"
    /\ reqch # << >>
    /\ Head(reqch).cmd = cmd
    /\ reqch' = Tail(reqch)

\* case serverCmdNewConnection
HandleNewConnection ==
    /\ ActorTakes(serverCmdNewConnection)
    /\ LET msg == Head(reqch)
       IN  IF InConns(conns, msg.raddr)
           THEN \* ErrorDuplicateClient: conn.Close()
                /\ sockClosed' = sockClosed \cup { msg.sock }
                /\ UNCHANGED << conns, remoteUuids, readers, crashed, vbmapped >>
           ELSE LET cs == [ conns EXCEPT ![msg.raddr] = msg.sock ]
                    w == startWorker(cs, msg.raddr, readers)
                IN  /\ conns' = cs
                    /\ remoteUuids' = [ remoteUuids EXCEPT ![msg.raddr] = << >> ]
                    /\ vbmapped' = [ vbmapped EXCEPT ![msg.raddr] = { } ]
                    /\ readers' = w.readers
                    /\ crashed' = w.crash
                    /\ UNCHANGED sockClosed
    /\ UNCHANGED << lis, listenerPc, gens, actorPc, workerClosed, frames, mutch,
                    sbch, finch, closers, appCloses >>
    /\ UNCHANGED nonDp

\* case serverCmdVbmap
HandleVbmap ==
    /\ ActorTakes(serverCmdVbmap)
    /\ LET msg == Head(reqch)
           add == [ i \in DOMAIN msg.vbmap.vbuckets |->
                      << msg.vbmap.bucket, msg.vbmap.vbuckets[i] >> ]
           w == startWorker(conns, msg.raddr, readers)
       IN  /\ remoteUuids' = [ remoteUuids EXCEPT ![msg.raddr] = @ \o add ]
           /\ vbmapped' = [ vbmapped EXCEPT ![msg.raddr] = @ \cup Range(add) ]
           /\ readers' = w.readers
           /\ crashed' = w.crash
    /\ UNCHANGED << lis, listenerPc, gens, actorPc, conns, sockClosed,
                    workerClosed, frames, mutch, sbch, finch, closers, appCloses >>
    /\ UNCHANGED nonDp

\* case serverCmdVbcontrol; a panic(err) is recovered by the deferred
\* function of genServer, which runs handleClose and lets the gen-server end
HandleVbcontrol ==
    /\ ActorTakes(serverCmdVbcontrol)
    /\ LET msg == Head(reqch)
           uuids == remoteUuids[msg.raddr]
           added == IF Len(msg.started) > 0
                    THEN addUuids(msg.started, uuids)
                    ELSE [ err |-> "", uuids |-> uuids ]
           left == IF Len(msg.finished) > 0
                   THEN delUuids(msg.finished, added.uuids)
                   ELSE added.uuids
           w == startWorker(conns, msg.raddr, readers)
       IN  IF added.err # ""
           THEN /\ handleClose
                /\ actorPc' = "exited"
                /\ UNCHANGED << remoteUuids, readers, crashed >>
           ELSE /\ remoteUuids' = [ remoteUuids EXCEPT ![msg.raddr] = left ]
                /\ readers' = w.readers
                /\ crashed' = w.crash
                /\ UNCHANGED << lis, actorPc, conns, sockClosed, workerClosed, finch >>
    /\ UNCHANGED << listenerPc, gens, frames, mutch, sbch, closers, appCloses >>
    /\ UNCHANGED nonVbmap

\* case serverCmdClose
HandleCloseCmd ==
    /\ ActorTakes(serverCmdClose)
    /\ handleClose
    /\ closers' = [ closers EXCEPT !.wait = @ - 1, !.replied = @ + 1 ]
    /\ actorPc' = "exited"
    /\ UNCHANGED << listenerPc, gens, remoteUuids, readers, frames, mutch, sbch,
                    appCloses, crashed >>
    /\ UNCHANGED nonVbmap

\* the remote addresses with an entry in remoteUuids that holds pairs
UuidRemotes(uuidsOf) == { raddr \in RAddrs : uuidsOf[raddr] # << >> }

\* case serverCmdError: jumboErrorHandler, then the event to sbch
HandleError ==
    /\ ActorTakes(serverCmdError)
    /\ LET msg == Head(reqch)
           closed == closeRemoteHost(msg.raddr, conns)
           socks == { conns[raddr] : raddr \in closed }
       IN  IF ~ InConns(conns, msg.raddr)
           THEN \* remote already gone
                UNCHANGED << conns, sockClosed, workerClosed, sbch, closers >>
           ELSE IF IsCloseRemote(msg.err)
           THEN \* closeremote
                /\ conns' = [ raddr \in RAddrs |->
                                IF raddr \in closed THEN NoSock ELSE conns[raddr] ]
                /\ sockClosed' = sockClosed \cup socks
                /\ workerClosed' = workerClosed \cup socks
                /\ \E order \in Perms(closed) :
                      sbch' = Append(sbch, Event("RestartVbuckets",
                                  vbucketsForOrder(order, remoteUuids, NoBuckets)))
                /\ UNCHANGED closers
           ELSE IF msg.err # ""
           THEN \* closeall: the event, and go s.Close()
                /\ \E order \in Perms(UuidRemotes(remoteUuids)) :
                      sbch' = Append(sbch, Event("ShutdownDataport",
                                  vbucketsForOrder(order, remoteUuids, NoBuckets)))
                /\ closers' = Spawn(closers)
                /\ UNCHANGED << conns, sockClosed, workerClosed >>
           ELSE UNCHANGED << conns, sockClosed, workerClosed, sbch, closers >>
    /\ UNCHANGED << lis, listenerPc, gens, actorPc, remoteUuids, readers, frames,
                    mutch, finch, appCloses, crashed >>
    /\ UNCHANGED nonVbmap

(***************************************************************************)
(* Dataport: the per-connection reader doReceive.                          *)
(***************************************************************************)
Replace(rds, r, r2) == (rds (-) SetToBag({ r })) (+) SetToBag({ r2 })
Remove(rds, r) == rds (-) SetToBag({ r })

ReaderAt(r, pc) ==
    /\ ~ crashed
    /\ r \in BagToSet(readers)
    /\ r.pc = pc

\* the remote may deliver one more frame on the socket of r
MayDeliver(r) ==
    /\ r.sock \notin sockClosed
    /\ frames < MaxFrames

\* reqch <- msg, then the task ends; the send blocks while reqch is full
SendAndExit(r, msg) ==
    /\ Len(reqch) < ReqchCap
    /\ reqch' = Append(reqch, msg)
    /\ readers' = Remove(readers, r)

\* payload is a *protobuf.VbConnectionMap
ReaderReceiveVbmap(r, vbmap) ==
    /\ ReaderAt(r, "recv")
    /\ MayDeliver(r)
    /\ SendAndExit(r, VbmapMsg(r.sock[1], vbmap))
    /\ frames' = frames + 1
    /\ UNCHANGED << lis, listenerPc, gens, actorPc, conns, remoteUuids,
                    sockClosed, workerClosed, mutch, sbch, finch, closers,
                    appCloses, crashed >>
    /\ UNCHANGED nonVbmap

\* payload is a []*protobuf.VbKeyVersions: updateActiveVbuckets, then the
\* select; a key-version without commands panics the task, and nothing
\* recovers it
ReaderReceiveBatch(r, vbs) ==
    /\ ReaderAt(r, "recv")
    /\ MayDeliver(r)
    /\ IF updateActiveVbucketsPanics(vbs)
       THEN /\ crashed' = TRUE
            /\ UNCHANGED readers
       ELSE /\ readers' = Replace(readers, r,
                              [ r EXCEPT !.pc = "select", !.vbs = vbs,
                                         !.no = frames + 1 ])
            /\ UNCHANGED crashed
    /\ frames' = frames + 1
    /\ UNCHANGED << lis, listenerPc, gens, reqch, actorPc, conns, remoteUuids,
                    sockClosed, workerClosed, mutch, sbch, finch, closers,
                    appCloses >>
    /\ UNCHANGED nonVbmap

\* any other payload
ReaderReceiveOther(r) ==
    /\ ReaderAt(r, "recv")
    /\ MayDeliver(r)
    /\ SendAndExit(r, ErrorMsg(r.sock[1], ErrorPayload))
    /\ frames' = frames + 1
    /\ UNCHANGED << lis, listenerPc, gens, actorPc, conns, remoteUuids,
                    sockClosed, workerClosed, mutch, sbch, finch, closers,
                    appCloses, crashed >>
    /\ UNCHANGED nonVbmap

\* pkt.Receive fails: the remote closed or reset the connection, the read
\* deadline expired, or this process closed the socket
ReaderReceiveError(r, err) ==
    /\ ReaderAt(r, "recv")
    /\ IF r.sock \in sockClosed THEN err = ErrClosedConn ELSE err \in TransportErrors
    /\ SendAndExit(r, ErrorMsg(r.sock[1], err))
    /\ UNCHANGED << lis, listenerPc, gens, actorPc, conns, remoteUuids,
                    sockClosed, workerClosed, frames, mutch, sbch, finch,
                    closers, appCloses, crashed >>
    /\ UNCHANGED nonVbmap

\* select, case mutch <- vbs
ReaderSelectPublish(r) ==
    /\ ReaderAt(r, "select")
    /\ Len(mutch) < MutchCap
    /\ mutch' = Append(mutch, [ sock |-> r.sock, no |-> r.no ])
    /\ LET act == updateActiveVbuckets(r.vbs)
       IN  readers' = Replace(readers, r,
              IF Len(act.started) > 0 \/ Len(act.finished) > 0
              THEN [ r EXCEPT !.pc = "control", !.no = 0 ]
              ELSE [ r EXCEPT !.pc = "recv", !.vbs = << >>, !.no = 0 ])
    /\ UNCHANGED << lis, listenerPc, gens, reqch, actorPc, conns, remoteUuids,
                    sockClosed, workerClosed, frames, sbch, finch, closers,
                    appCloses, crashed >>
    /\ UNCHANGED nonVbmap

\* after the publish: serverCmdVbcontrol with started and finished
ReaderSendControl(r) ==
    /\ ReaderAt(r, "control")
    /\ LET act == updateActiveVbuckets(r.vbs)
       IN  SendAndExit(r, VbcontrolMsg(r.sock[1], act.started, act.finished))
    /\ UNCHANGED << lis, listenerPc, gens, actorPc, conns, remoteUuids,
                    sockClosed, workerClosed, frames, mutch, sbch, finch,
                    closers, appCloses, crashed >>
    /\ UNCHANGED nonVbmap

\* select, case <-worker
ReaderSelectKilled(r) ==
    /\ ReaderAt(r, "select")
    /\ r.sock \in workerClosed
    /\ SendAndExit(r, ErrorMsg(r.sock[1], ErrorWorkerKilled))
    /\ UNCHANGED << lis, listenerPc, gens, actorPc, conns, remoteUuids,
                    sockClosed, workerClosed, frames, mutch, sbch, finch,
                    closers, appCloses, crashed >>
    /\ UNCHANGED nonVbmap

(***************************************************************************)
(* Dataport: the application and Server.Close.                             *)
(***************************************************************************)
\* the application receives a batch from the mutation channel
AppReceive ==
    /\ ~ crashed
    /\ mutch # << >>
    /\ mutch' = Tail(mutch)
    /\ UNCHANGED << lis, listenerPc, gens, reqch, actorPc, conns, remoteUuids,
                    sockClosed, workerClosed, readers, frames, sbch, finch,
                    closers, appCloses, crashed >>
    /\ UNCHANGED nonVbmap

\* the application calls Server.Close
AppClose ==
    /\ ~ crashed
    /\ appCloses < MaxAppClose
    /\ appCloses' = appCloses + 1
    /\ closers' = Spawn(closers)
    /\ UNCHANGED << lis, listenerPc, gens, reqch, actorPc, conns, remoteUuids,
                    sockClosed, workerClosed, readers, frames, mutch, sbch,
                    finch, crashed >>
    /\ UNCHANGED nonVbmap

CloserUnchanged ==
    /\ UNCHANGED << lis, listenerPc, gens, actorPc, conns, remoteUuids,
                    sockClosed, workerClosed, readers, frames, mutch, sbch,
                    finch, appCloses, crashed >>
    /\ UNCHANGED nonVbmap

\* FailsafeOp: select, case reqch <- cmd
CloserSend ==
    /\ ~ crashed
    /\ closers.send > 0
    /\ Len(reqch) < ReqchCap
    /\ reqch' = Append(reqch, CloseMsg)
    /\ closers' = [ closers EXCEPT !.send = @ - 1, !.wait = @ + 1 ]
    /\ CloserUnchanged

\* FailsafeOp: case <-finch, before or after the command was queued:
\* Close returns ErrorClosed
CloserFinch(at) ==
    /\ ~ crashed
    /\ closers[at] > 0
    /\ finch
    /\ closers' = [ closers EXCEPT ![at] = @ - 1 ]
    /\ UNCHANGED reqch
    /\ CloserUnchanged

\* FailsafeOp: case resp := <-respch: Close returns nil
CloserResponse ==
    /\ ~ crashed
    /\ closers.replied > 0
    /\ closers' = [ closers EXCEPT !.replied = @ - 1 ]
    /\ UNCHANGED reqch
    /\ CloserUnchanged


(***************************************************************************)
(* Dataport: next-state relation.                                                *)
(***************************************************************************)
Next ==
    \/ \E raddr \in RAddrs : ListenerAccept(raddr)
    \/ ListenerFail
    \/ HandleNewConnection
    \/ HandleVbmap
    \/ HandleVbcontrol
    \/ HandleCloseCmd
    \/ HandleError
    \/ \E r \in BagToSet(readers), vbmap \in VbmapInputs : ReaderReceiveVbmap(r, vbmap)
    \/ \E r \in BagToSet(readers), vbs \in BatchInputs : ReaderReceiveBatch(r, vbs)
    \/ \E r \in BagToSet(readers) : ReaderReceiveOther(r)
    \/ \E r \in BagToSet(readers), err \in TransportErrors \cup { ErrClosedConn } :
          ReaderReceiveError(r, err)
    \/ \E r \in BagToSet(readers) : ReaderSelectPublish(r)
    \/ \E r \in BagToSet(readers) : ReaderSendControl(r)
    \/ \E r \in BagToSet(readers) : ReaderSelectKilled(r)
    \/ AppReceive
    \/ AppClose
    \/ CloserSend
    \/ \E at \in { "send", "wait", "replied" } : CloserFinch(at)
    \/ CloserResponse

(***************************************************************************)
(* Coordinator: metadata repository and topology.                          *)
(***************************************************************************)
\* ADD_IDX_DEFN / DEL_IDX_DEFN applications in one run
MaxApply == 4

LocalHost == "n1"
PeerHosts == { "n2" }
IndexHosts == { LocalHost } \cup PeerHosts

\* the definitions a request can carry; the definition id is the caller's
\* choice, so an index can be created again under another id
IndexDefns ==
    { [ Bucket |-> "b1", Name |-> "i1", DefnId |-> 1 ],
      [ Bucket |-> "b1", Name |-> "i2", DefnId |-> 2 ],
      [ Bucket |-> "b2", Name |-> "i1", DefnId |-> 3 ],
      [ Bucket |-> "b1", Name |-> "i1", DefnId |-> 4 ] }
TopoBuckets == { d.Bucket : d \in IndexDefns }

INDEX_STATE_CREATED == "CREATED"
INDEX_STATE_DELETED == "DELETED"

\* the key of an index definition and its two projections
indexDefnName(bucket, name) == << bucket, "/", name >>
bucketFromIndexDefnName(key) == key[1]
nameFromIndexDefnName(key) == key[3]
IndexDefnKeys == { indexDefnName(d.Bucket, d.Name) : d \in IndexDefns }

\* the key of a bucket topology in the global topology, and its inverse
indexTopologyKey(bucket) == << "IndexTopology/", bucket >>
getBucketFromTopologyKey(key) == key[2]

\* the calls of one application that can fail, by call site; at most one
\* of them fails in one application
NoFailure == "none"
AddFailures ==
    { "UnmarshallIndexDefn", "CreateIndex", "GetTopologyByBucket@add",
      "GetGlobalTopology@find", "getLocalHost", "GetTopologyByBucket@find",
      "GetGlobalTopology@global", "SetGlobalTopology",
      "SetTopologyByBucket@add" }
DelFailures ==
    { "DropIndexByName", "GetTopologyByBucket@del", "SetTopologyByBucket@del" }

\* documents of the repository; present = FALSE is "not found"
NoTopology == [ present |-> FALSE, Version |-> 0, Definitions |-> << >> ]
NoGlobalTopology == [ present |-> FALSE, TopologyKeys |-> { } ]

NoApply == [ op |-> "none", Bucket |-> "", Name |-> "", failed |-> FALSE,
             ok |-> FALSE, instId |-> 0 ]

TopoInit ==
    /\ repo = [ defns |-> { },
                topologies |-> [ b \in TopoBuckets |-> NoTopology ],
                global |-> NoGlobalTopology,
                nextInstId |-> 1 ]
    /\ applied = 0
    /\ lastApply = NoApply
    /\ prevApply = NoApply

\* repo.GetTopologyByBucket: an error when the read fails or nothing is stored
GetTopologyByBucket(r, bucket, failed) ==
    IF failed \/ ~ r.topologies[bucket].present
    THEN [ err |-> TRUE, topology |-> NoTopology ]
    ELSE [ err |-> FALSE, topology |-> r.topologies[bucket] ]

\* repo.SetTopologyByBucket: stores the document it is given under the next
\* version (the coordinator itself never advances Version; it only sets it
\* to 0 on a fresh topology)
SetTopologyByBucket(r, bucket, topology) ==
    [ r EXCEPT !.topologies[bucket] =
          [ present |-> TRUE, Version |-> topology.Version + 1,
            Definitions |-> topology.Definitions ] ]

\* repo.GetGlobalTopology
GetGlobalTopology(r, failed) ==
    IF failed \/ ~ r.global.present
    THEN [ err |-> TRUE, globalTop |-> NoGlobalTopology ]
    ELSE [ err |-> FALSE, globalTop |-> r.global ]

\* repo.SetGlobalTopology
SetGlobalTopology(r, globalTop) ==
    [ r EXCEPT !.global =
          [ present |-> TRUE, TopologyKeys |-> globalTop.TopologyKeys ] ]

\* IndexTopology.AddIndexDefinition: one instance, one partition, one slice
AddIndexDefinition(topology, name, defnId, instId, state, host) ==
    [ topology EXCEPT !.Definitions =
          Append(@, [ Name |-> name, DefnId |-> defnId, InstId |-> instId,
                      State |-> state, Host |-> host ]) ]

\* IndexTopology.FindIndexDefinition: index of the first definition of that
\* name, 0 when there is none
FindIndexDefinition(topology, name) ==
    LET at == { i \in 1..Len(topology.Definitions) :
                    topology.Definitions[i].Name = name }
    IN  IF at = { } THEN 0
        ELSE CHOOSE i \in at : \A j \in at : i <= j

\* IndexTopology.UpdateStateForIndexInstByDefn
UpdateStateForIndexInstByDefn(topology, defnId, state) ==
    [ topology EXCEPT !.Definitions =
          [ i \in 1..Len(@) |->
              IF @[i].DefnId = defnId THEN [ @[i] EXCEPT !.State = state ]
              ELSE @[i] ] ]

\* addToGlobalTopologyIfNecessary (a failed read is taken for an empty
\* global topology)
addToGlobalTopologyIfNecessary(r, bucket, fail) ==
    LET got == GetGlobalTopology(r, fail = "GetGlobalTopology@global")
        globalTop == IF got.err THEN NoGlobalTopology ELSE got.globalTop
        key == indexTopologyKey(bucket)
    IN  IF key \in globalTop.TopologyKeys
        THEN [ err |-> FALSE, repo |-> r ]
        ELSE IF fail = "SetGlobalTopology"
        THEN [ err |-> TRUE, repo |-> r ]
        ELSE [ err |-> FALSE,
               repo |-> SetGlobalTopology(r,
                   [ globalTop EXCEPT !.TopologyKeys = @ \cup { key } ]) ]

\* slices on host over the bucket topologies of the given keys
indexCount(r, keys, host) ==
    Cardinality({ << key, i >> \in
        UNION { { key } \X (1..Len(r.topologies[getBucketFromTopologyKey(key)].Definitions)) :
                key \in keys } :
        r.topologies[getBucketFromTopologyKey(key)].Definitions[i].Host = host })

\* findNextAvailNodeForIndex returning the local host whatever the counts
findNextAvailNodeForIndex_localOnly(r, fail) ==
    IF fail = "getLocalHost"
    THEN [ err |-> TRUE, hosts |-> { } ]
    ELSE [ err |-> FALSE, hosts |-> { LocalHost } ]

\* findNextAvailNodeForIndex: the hosts the loop over the indexCount map
\* can end on (map iteration order is not fixed)
findNextAvailNodeForIndex(r, fail) ==
    LET got == GetGlobalTopology(r, fail = "GetGlobalTopology@find")
        keys == got.globalTop.TopologyKeys
    IN  IF fail = "getLocalHost"
        THEN [ err |-> TRUE, hosts |-> { } ]
        ELSE IF got.err
        THEN [ err |-> FALSE, hosts |-> { LocalHost } ]
        ELSE IF \E key \in keys :
                  GetTopologyByBucket(r, getBucketFromTopologyKey(key),
                                      fail = "GetTopologyByBucket@find").err
        THEN [ err |-> TRUE, hosts |-> { } ]
        ELSE [ err |-> FALSE,
               hosts |-> { h \in IndexHosts : \A g \in IndexHosts :
                               indexCount(r, keys, h) <= indexCount(r, keys, g) } ]

\* addIndexToTopology, with host the node findNextAvailNodeForIndex chose
addIndexToTopology(r, defn, fail, host) ==
    LET got == GetTopologyByBucket(r, defn.Bucket, fail = "GetTopologyByBucket@add")
        topology == IF got.err
                    THEN [ present |-> TRUE, Version |-> 0, Definitions |-> << >> ]
                    ELSE got.topology
        found == findNextAvailNodeForIndex(r, fail)
        r1 == [ r EXCEPT !.nextInstId = @ + 1 ]
        added == AddIndexDefinition(topology, defn.Name, defn.DefnId,
                                    r.nextInstId, INDEX_STATE_CREATED, host)
        glob == addToGlobalTopologyIfNecessary(r1, defn.Bucket, fail)
    IN  IF found.err THEN [ err |-> TRUE, repo |-> r ]
        ELSE IF glob.err THEN [ err |-> TRUE, repo |-> glob.repo ]
        ELSE IF fail = "SetTopologyByBucket@add"
        THEN [ err |-> TRUE, repo |-> glob.repo ]
        ELSE [ err |-> FALSE,
               repo |-> SetTopologyByBucket(glob.repo, defn.Bucket, added) ]

\* createIndex
createIndex(r, defn, fail, host) ==
    IF fail = "UnmarshallIndexDefn" THEN [ ok |-> FALSE, repo |-> r ]
    ELSE IF \/ fail = "CreateIndex"
            \/ \E d \in r.defns : d.Bucket = defn.Bucket /\ d.Name = defn.Name
    THEN [ ok |-> FALSE, repo |-> r ]
    ELSE LET res == addIndexToTopology([ r EXCEPT !.defns = @ \cup { defn } ],
                                       defn, fail, host)
         IN  [ ok |-> ~ res.err, repo |-> res.repo ]

\* deleteIndexFromTopology
deleteIndexFromTopology(r, bucket, name, fail) ==
    LET got == GetTopologyByBucket(r, bucket, fail = "GetTopologyByBucket@del")
        at == FindIndexDefinition(got.topology, name)
    IN  IF got.err THEN [ err |-> TRUE, repo |-> r ]
        ELSE IF at = 0 THEN [ err |-> FALSE, repo |-> r ]
        ELSE IF fail = "SetTopologyByBucket@del" THEN [ err |-> TRUE, repo |-> r ]
        ELSE [ err |-> FALSE,
               repo |-> SetTopologyByBucket(r, bucket,
                   UpdateStateForIndexInstByDefn(got.topology,
                       got.topology.Definitions[at].DefnId, INDEX_STATE_DELETED)) ]

\* deleteIndex
deleteIndex(r, key, fail) ==
    LET bucket == bucketFromIndexDefnName(key)
        name == nameFromIndexDefnName(key)
    IN  IF \/ fail = "DropIndexByName"
           \/ ~ \E d \in r.defns : d.Bucket = bucket /\ d.Name = name
        THEN [ ok |-> FALSE, repo |-> r ]
        ELSE LET res == deleteIndexFromTopology(
                     [ r EXCEPT !.defns =
                           { d \in @ : ~ (d.Bucket = bucket /\ d.Name = name) } ],
                     bucket, name, fail)
             IN  [ ok |-> ~ res.err, repo |-> res.repo ]

\* the hosts findNextAvailNodeForIndex can return in this application
HostChoices(r, fail) ==
    LET found == findNextAvailNodeForIndex(r, fail)
    IN  IF found.err THEN { LocalHost } ELSE found.hosts

\* LogProposal's case OPCODE_ADD_IDX_DEFN: createIndex, its result only
\* logged
applyAddIdxDefn(defn, fail, host) ==
    /\ applied < MaxApply
    /\ host \in HostChoices(repo, fail)
    /\ LET res == createIndex(repo, defn, fail, host)
       IN  /\ repo' = res.repo
           /\ lastApply' = [ op |-> "add", Bucket |-> defn.Bucket,
                             Name |-> defn.Name, failed |-> fail # NoFailure,
                             ok |-> res.ok,
                             instId |-> repo.nextInstId ]
    /\ prevApply' = lastApply
    /\ applied' = applied + 1

\* LogProposal's case OPCODE_DEL_IDX_DEFN: deleteIndex, its result only logged
applyDelIdxDefn(key, fail) ==
    /\ applied < MaxApply
    /\ LET res == deleteIndex(repo, key, fail)
       IN  /\ repo' = res.repo
           /\ lastApply' = [ op |-> "del",
                             Bucket |-> bucketFromIndexDefnName(key),
                             Name |-> nameFromIndexDefnName(key),
                             failed |-> fail # NoFailure, ok |-> res.ok,
                             instId |-> 0 ]
    /\ prevApply' = lastApply
    /\ applied' = applied + 1

\* the leader applies ADD_IDX_DEFN (LogProposal, status LEADING)
ApplyAdd(defn, fail, host) ==
    /\ applyAddIdxDefn(defn, fail, host)
    /\ UNCHANGED nonTp

\* the leader applies DEL_IDX_DEFN (LogProposal, status LEADING)
ApplyDel(key, fail) ==
    /\ applyDelIdxDefn(key, fail)
    /\ UNCHANGED nonTp

TopoNext ==
    \/ \E defn \in IndexDefns, fail \in AddFailures \cup { NoFailure },
          host \in IndexHosts : ApplyAdd(defn, fail, host)
    \/ \E key \in IndexDefnKeys, fail \in DelFailures \cup { NoFailure } :
          ApplyDel(key, fail)

(***************************************************************************)
(* Coordinator: epochs (callbacks of the election and voting protocol).    *)
(***************************************************************************)
\* largest epoch the protocol announces
MaxEpoch == 3
\* coordinator restarts
MaxRestarts == 1

Epochs == 0..MaxEpoch

NoCall == [ op |-> "none", epoch |-> 0, readFails |-> FALSE,
            writeFails |-> FALSE,
            before |-> [ acceptedEpoch |-> 0, currentEpoch |-> 0 ] ]

EpochInit ==
    /\ config = [ acceptedEpoch |-> 0, currentEpoch |-> 0 ]
    /\ winningEpoch = 0
    /\ txnEpoch = 0
    /\ restarts = 0
    /\ lastCall = NoCall

\* c.config.GetAcceptedEpoch / GetCurrentEpoch: a failed read returns the
\* zero value along with the error
GetEpoch(stored, readFails) ==
    IF readFails THEN [ err |-> TRUE, epoch |-> 0 ]
    ELSE [ err |-> FALSE, epoch |-> stored ]

\* NotifyNewAcceptedEpoch that also lifts currentEpoch to the accepted epoch
NotifyNewAcceptedEpoch_ordered(cfg, epoch, readFails, writeFails) ==
    LET oldEpoch == GetEpoch(cfg.acceptedEpoch, readFails).epoch
    IN  IF oldEpoch < epoch /\ ~ writeFails
        THEN [ acceptedEpoch |-> epoch,
               currentEpoch |-> IF cfg.currentEpoch < epoch THEN epoch
                                ELSE cfg.currentEpoch ]
        ELSE cfg

\* NotifyNewAcceptedEpoch: the config document after the call
NotifyNewAcceptedEpoch(cfg, epoch, readFails, writeFails) ==
    LET oldEpoch == GetEpoch(cfg.acceptedEpoch, readFails).epoch
    IN  IF oldEpoch < epoch /\ ~ writeFails
        THEN [ cfg EXCEPT !.acceptedEpoch = epoch ]
        ELSE cfg

\* NotifyNewCurrentEpoch: the config document after the call, and whether
\* the election site and the txn-state are given the new epoch
NotifyNewCurrentEpoch(cfg, epoch, readFails, writeFails) ==
    LET oldEpoch == GetEpoch(cfg.currentEpoch, readFails).epoch
    IN  IF oldEpoch < epoch /\ ~ writeFails
        THEN [ config |-> [ cfg EXCEPT !.currentEpoch = epoch ], updated |-> TRUE ]
        ELSE [ config |-> cfg, updated |-> FALSE ]

Call(op, epoch, readFails, writeFails) ==
    [ op |-> op, epoch |-> epoch, readFails |-> readFails,
      writeFails |-> writeFails, before |-> config ]

CallNotifyNewAcceptedEpoch(epoch, readFails, writeFails) ==
    /\ config' = NotifyNewAcceptedEpoch(config, epoch, readFails, writeFails)
    /\ lastCall' = Call("accepted", epoch, readFails, writeFails)
    /\ UNCHANGED << winningEpoch, txnEpoch, restarts >>
    /\ UNCHANGED nonEp

CallNotifyNewCurrentEpoch(epoch, readFails, writeFails) ==
    LET res == NotifyNewCurrentEpoch(config, epoch, readFails, writeFails)
    IN  /\ config' = res.config
        /\ winningEpoch' = IF res.updated THEN epoch ELSE winningEpoch
        /\ txnEpoch' = IF res.updated THEN epoch ELSE txnEpoch
        /\ lastCall' = Call("current", epoch, readFails, writeFails)
        /\ UNCHANGED restarts
        /\ UNCHANGED nonEp

\* the coordinator restarts: bootstrap makes a new txn-state and drops the
\* election site; the config document is persisted
EpochRestart ==
    /\ restarts < MaxRestarts
    /\ restarts' = restarts + 1
    /\ winningEpoch' = 0
    /\ txnEpoch' = 0
    /\ lastCall' = NoCall
    /\ UNCHANGED config
    /\ UNCHANGED nonEp

EpochNext ==
    \/ \E epoch \in Epochs, readFails \in BOOLEAN, writeFails \in BOOLEAN :
          CallNotifyNewAcceptedEpoch(epoch, readFails, writeFails)
    \/ \E epoch \in Epochs, readFails \in BOOLEAN, writeFails \in BOOLEAN :
          CallNotifyNewCurrentEpoch(epoch, readFails, writeFails)
    \/ EpochRestart

(***************************************************************************)
(* Coordinator: Run loop, NewRequest, Terminate and the callbacks of the   *)
(* leader / follower server.                                               *)
(*                                                                         *)
(* The leader / follower server and the election site are library code     *)
(* outside this repository.  They appear here only through the calls they  *)
(* make on the Coordinator (GetRequestChannel, AddPendingRequest,          *)
(* LogProposal, Commit) and through what runElection and runProtocol       *)
(* receive from them; these calls are made only while runProtocol is       *)
(* running.  A handle is identified with the NewRequest call that created  *)
(* it.  NewRequest holds the handle's mutex from before the send on        *)
(* incomings until Wait() parks, and every signaller takes that mutex, so  *)
(* the send and the Wait are one step.                                     *)
(***************************************************************************)
\* NewRequest calls in one run
MaxCallers == 2
\* request ids the callers choose from
MaxReqId == 2
\* txnids the leader allocates
MaxTxn == 1
\* bootstraps of the Run loop
MaxCycles == 2
\* Terminate() calls
MaxTerminate == 1
\* capacity of the incomings channel (common.MAX_PROPOSALS)
MAX_PROPOSALS == 1

Callers == 1..MaxCallers
NoHandle == 0
ReqIds == 1..MaxReqId
Txnids == 1..MaxTxn
\* the request ids caller c chooses from: two callers can pick the same id,
\* and runs that differ only in the names of the ids are taken once
ReqIdsOf(c) == { id \in ReqIds : id <= c }

\* follower ids: this node (GetFollowerId) and a peer
Self == "self"
Peer == "peer"

ELECTING == "ELECTING"
LEADING == "LEADING"
FOLLOWING == "FOLLOWING"

OPCODE_ADD_IDX_DEFN == "ADD_IDX_DEFN"
OPCODE_DEL_IDX_DEFN == "DEL_IDX_DEFN"
OPCODE_NOTIFY_TIMESTAMP == "NOTIFY_TIMESTAMP"

NoProposal == [ fid |-> "", reqId |-> 0, origin |-> NoHandle, prev |-> NoHandle ]

\* no send on a channel of the coordinator yet
NoSend == [ ch |-> "", holding |-> { } ]

\* after NewCoordinator
CoordInit ==
    /\ runPc = "bootstrap"
    /\ cycles = 0
    /\ stateNil = TRUE
    /\ done = FALSE
    /\ status = ELECTING
    /\ leader = ""
    /\ site = "nil"
    /\ configRepo = "nil"
    /\ skillch = 0
    /\ ready = FALSE
    /\ terminates = 0
    /\ callerPc = [ c \in Callers |-> "idle" ]
    /\ reqIdOf = [ c \in Callers |-> 0 ]
    /\ handleErr = [ c \in Callers |-> FALSE ]
    /\ incomings = << >>
    /\ pendings = [ id \in ReqIds |-> NoHandle ]
    /\ proposals = [ t \in Txnids |-> NoHandle ]
    /\ sent = << >>
    /\ nextTxn = 1
    /\ signals = [ c \in Callers |-> 0 ]
    /\ logged = [ t \in Txnids |-> NoProposal ]
    /\ commitSignalled = { }
    /\ committedTxns = { }
    /\ pastLatchAtTerminate = { }
    /\ lastSend = NoSend

\* the parts of the coordinator no request-handling step changes
RunUnchanged ==
    UNCHANGED << runPc, cycles, stateNil, done, status, leader, site,
                 configRepo, skillch, ready, terminates >>
HistoryUnchanged ==
    UNCHANGED << logged, commitSignalled, committedTxns, pastLatchAtTerminate,
                 lastSend >>
HandlesUnchanged ==
    UNCHANGED << callerPc, reqIdOf, handleErr, incomings, pendings, proposals,
                 sent, nextTxn, signals >>

\* CondVar.Signal() on each handle of H: a waiter parked in Wait() wakes up
Woken(pcs, H) ==
    [ c \in Callers |-> IF c \in H /\ pcs[c] = "waiting" THEN "woken" ELSE pcs[c] ]

\* bootstrap: outcome "env" fails in newEnv, before a new state is made;
\* "repo" fails opening the config repository; "late" fails reading the last
\* logged txnid or starting the peer listener; "ok" ends in markReady, whose
\* cond.Signal() wakes one caller parked in waitForReady
Bootstrap(outcome, wake) ==
    /\ runPc = "bootstrap"
    /\ cycles < MaxCycles
    /\ cycles' = cycles + 1
    /\ runPc' = "isDone1"
    /\ IF outcome = "env"
       THEN /\ wake = NoHandle
            /\ UNCHANGED << stateNil, done, status, site, configRepo, skillch,
                            ready, callerPc, incomings, pendings, proposals,
                            sent >>
       ELSE /\ stateNil' = FALSE
            /\ done' = FALSE
            /\ status' = ELECTING
            /\ incomings' = << >>
            /\ pendings' = [ id \in ReqIds |-> NoHandle ]
            /\ proposals' = [ t \in Txnids |-> NoHandle ]
            /\ sent' = << >>
            /\ skillch' = 0
            /\ site' = "nil"
            /\ configRepo' = IF outcome = "repo" THEN "nil" ELSE "open"
            /\ IF outcome = "ok"
               THEN /\ ready' = TRUE
                    /\ IF \E c \in Callers : callerPc[c] = "latch"
                       THEN wake \in Callers /\ callerPc[wake] = "latch"
                       ELSE wake = NoHandle
                    /\ callerPc' = [ c \in Callers |->
                           IF c = wake THEN "recheck" ELSE callerPc[c] ]
               ELSE /\ wake = NoHandle
                    /\ UNCHANGED << ready, callerPc >>
    /\ UNCHANGED << leader, terminates, reqIdOf, handleErr, nextTxn, signals >>
    /\ HistoryUnchanged
    /\ UNCHANGED nonCo

\* runOnce: if !c.IsDone() after bootstrap, whatever bootstrap returned; a
\* nil state panics, and the deferred function goes on to cleanupState
IsDone1 ==
    /\ runPc = "isDone1"
    /\ runPc' = IF stateNil \/ done THEN "cleanup" ELSE "createSite"
    /\ UNCHANGED << cycles, stateNil, done, status, leader, site, configRepo,
                    skillch, ready, terminates >>
    /\ HandlesUnchanged
    /\ HistoryUnchanged
    /\ UNCHANGED nonCo

\* runElection: protocol.CreateElectionSite
CreateElectionSite(ok) ==
    /\ runPc = "createSite"
    /\ site' = IF ok THEN "open" ELSE "nil"
    /\ runPc' = IF ok THEN "electing" ELSE "cleanup"
    /\ UNCHANGED << cycles, stateNil, done, status, leader, configRepo,
                    skillch, ready, terminates >>
    /\ HandlesUnchanged
    /\ HistoryUnchanged
    /\ UNCHANGED nonCo

\* runElection: leader, ok := <-resultCh, a leader while the site is open
ElectionResult(elected) ==
    /\ runPc = "electing"
    /\ site = "open"
    /\ leader' = elected
    /\ runPc' = "isDone2"
    /\ UNCHANGED << cycles, stateNil, done, status, site, configRepo,
                    skillch, ready, terminates >>
    /\ HandlesUnchanged
    /\ HistoryUnchanged
    /\ UNCHANGED nonCo

\* runElection: the result channel is closed (site closed, or the election
\* failed)
ElectionFail ==
    /\ runPc = "electing"
    /\ runPc' = "cleanup"
    /\ UNCHANGED << cycles, stateNil, done, status, leader, site, configRepo,
                    skillch, ready, terminates >>
    /\ HandlesUnchanged
    /\ HistoryUnchanged
    /\ UNCHANGED nonCo

\* runOnce: if !c.IsDone() after the election, then runProtocol sets the
\* status and starts the leader or the follower server
IsDone2 ==
    /\ runPc = "isDone2"
    /\ IF done
       THEN runPc' = "cleanup" /\ UNCHANGED status
       ELSE /\ runPc' = "serve"
            /\ status' = IF leader = Self THEN LEADING ELSE FOLLOWING
    /\ leader' = ""
    /\ UNCHANGED << cycles, stateNil, done, site, configRepo,
                    skillch, ready, terminates >>
    /\ HandlesUnchanged
    /\ HistoryUnchanged
    /\ UNCHANGED nonCo

\* AddPendingRequest
AddPendingRequest(pend, handle, reqId) ==
    [ pend EXCEPT ![reqId] = handle ]

\* the server takes a handle from GetRequestChannel(), calls
\* AddPendingRequest and passes the request on to the leader
Dequeue ==
    /\ runPc = "serve"
    /\ incomings # << >>
    /\ incomings' = Tail(incomings)
    /\ pendings' = AddPendingRequest(pendings, Head(incomings),
                                     reqIdOf[Head(incomings)])
    /\ sent' = Append(sent, [ reqId |-> reqIdOf[Head(incomings)],
                              origin |-> Head(incomings) ])
    /\ UNCHANGED << callerPc, reqIdOf, handleErr, proposals, nextTxn, signals >>
    /\ RunUnchanged
    /\ HistoryUnchanged
    /\ UNCHANGED nonCo

\* updateRequestOnNewProposal without the test of the follower id
updateRequestOnNewProposal_anyFid(pend, props, fid, reqId, txnid) ==
    IF pend[reqId] # NoHandle
    THEN [ pendings |-> [ pend EXCEPT ![reqId] = NoHandle ],
           proposals |-> [ props EXCEPT ![txnid] = pend[reqId] ] ]
    ELSE [ pendings |-> pend, proposals |-> props ]

\* updateRequestOnNewProposal without the delete from pendings
updateRequestOnNewProposal_keepPending(pend, props, fid, reqId, txnid) ==
    IF fid = Self /\ pend[reqId] # NoHandle
    THEN [ pendings |-> pend,
           proposals |-> [ props EXCEPT ![txnid] = pend[reqId] ] ]
    ELSE [ pendings |-> pend, proposals |-> props ]

\* updateRequestOnNewProposal: the pendings and proposals maps after it
updateRequestOnNewProposal(pend, props, fid, reqId, txnid) ==
    IF fid = Self /\ pend[reqId] # NoHandle
    THEN [ pendings |-> [ pend EXCEPT ![reqId] = NoHandle ],
           proposals |-> [ props EXCEPT ![txnid] = pend[reqId] ] ]
    ELSE [ pendings |-> pend, proposals |-> props ]

\* LogProposal: on the leader ADD_IDX_DEFN and DEL_IDX_DEFN are applied to
\* the repository (the result is only logged); then
\* updateRequestOnNewProposal.  origin is the handle whose request the
\* proposal carries, NoHandle for a proposal of another node
LogProposal(fid, reqId, origin, opCode, defn, fail, host) ==
    /\ runPc = "serve"
    /\ nextTxn <= MaxTxn
    /\ nextTxn' = nextTxn + 1
    /\ IF status = LEADING /\ opCode = OPCODE_ADD_IDX_DEFN
       THEN applyAddIdxDefn(defn, fail, host)
       ELSE IF status = LEADING /\ opCode = OPCODE_DEL_IDX_DEFN
       THEN applyDelIdxDefn(indexDefnName(defn.Bucket, defn.Name), fail)
       ELSE UNCHANGED tpVars
    /\ LET res == updateRequestOnNewProposal(pendings, proposals, fid, reqId,
                                             nextTxn)
       IN  /\ pendings' = res.pendings
           /\ proposals' = res.proposals
    /\ logged' = [ logged EXCEPT ![nextTxn] =
                       [ fid |-> fid, reqId |-> reqId, origin |-> origin,
                         prev |-> pendings[reqId] ] ]
    /\ UNCHANGED << callerPc, reqIdOf, handleErr, incomings, signals >>
    /\ RunUnchanged
    /\ UNCHANGED << commitSignalled, committedTxns, pastLatchAtTerminate,
                    lastSend >>
    /\ UNCHANGED nonCoTp

\* a proposal for the oldest request this node passed on
LogOwnProposal(opCode, defn, fail, host) ==
    /\ sent # << >>
    /\ sent' = Tail(sent)
    /\ LogProposal(Self, Head(sent).reqId, Head(sent).origin, opCode, defn,
                   fail, host)

\* a proposal that another node originated
LogPeerProposal(reqId, opCode, defn, fail, host) ==
    /\ UNCHANGED sent
    /\ LogProposal(Peer, reqId, NoHandle, opCode, defn, fail, host)

\* updateRequestOnCommit without the delete from proposals
updateRequestOnCommit_keepProposal(props, txnid) ==
    IF props[txnid] # NoHandle
    THEN [ proposals |-> props, signalled |-> { props[txnid] } ]
    ELSE [ proposals |-> props, signalled |-> { } ]

\* updateRequestOnCommit: the proposals map after it and the handles whose
\* CondVar it signals
updateRequestOnCommit(props, txnid) ==
    IF props[txnid] # NoHandle
    THEN [ proposals |-> [ props EXCEPT ![txnid] = NoHandle ],
           signalled |-> { props[txnid] } ]
    ELSE [ proposals |-> props, signalled |-> { } ]

\* Commit: any txnid logged so far, any number of times
Commit(txnid) ==
    /\ runPc = "serve"
    /\ txnid < nextTxn
    /\ LET res == updateRequestOnCommit(proposals, txnid)
       IN  /\ proposals' = res.proposals
           /\ signals' = [ c \in Callers |->
                  IF c \in res.signalled THEN signals[c] + 1 ELSE signals[c] ]
           /\ callerPc' = Woken(callerPc, res.signalled)
           /\ commitSignalled' = commitSignalled \cup res.signalled
    /\ committedTxns' = committedTxns \cup { txnid }
    /\ UNCHANGED << reqIdOf, handleErr, incomings, pendings, sent, nextTxn >>
    /\ RunUnchanged
    /\ UNCHANGED << logged, pastLatchAtTerminate, lastSend >>
    /\ UNCHANGED nonCo

\* RunLeaderServer / RunFollowerServer returns: killed through skillch, or
\* on an error of its own
ServerExit(killed) ==
    /\ runPc = "serve"
    /\ killed => skillch > 0
    /\ skillch' = IF killed THEN skillch - 1 ELSE skillch
    /\ runPc' = "cleanup"
    /\ UNCHANGED << cycles, stateNil, done, status, leader, site, configRepo,
                    ready, terminates >>
    /\ HandlesUnchanged
    /\ HistoryUnchanged
    /\ UNCHANGED nonCo

\* how many times cleanupState signals handle c: once for each place it is
\* found in
TimesHeld(c) ==
    Cardinality({ i \in 1..Len(incomings) : incomings[i] = c })
    + Cardinality({ id \in ReqIds : pendings[id] = c })
    + Cardinality({ t \in Txnids : proposals[t] = c })

\* cleanupState (deferred by runOnce): markNotReady, close listener and site,
\* drain incomings, set Err on and signal every handle of incomings, pendings
\* and proposals; with a nil state it panics after markNotReady
cleanupState ==
    /\ runPc = "cleanup"
    /\ runPc' = "isDone"
    /\ ready' = FALSE
    /\ IF stateNil
       THEN UNCHANGED << site, incomings, handleErr, signals, callerPc >>
       ELSE /\ site' = IF site = "open" THEN "closed" ELSE site
            /\ incomings' = << >>
            /\ handleErr' = [ c \in Callers |-> handleErr[c] \/ TimesHeld(c) > 0 ]
            /\ signals' = [ c \in Callers |-> signals[c] + TimesHeld(c) ]
            /\ callerPc' = Woken(callerPc, { c \in Callers : TimesHeld(c) > 0 })
    /\ UNCHANGED << cycles, stateNil, done, status, leader, configRepo,
                    skillch, terminates, reqIdOf, pendings, proposals, sent,
                    nextTxn >>
    /\ HistoryUnchanged
    /\ UNCHANGED nonCo

\* Run: if !s.IsDone() after runOnce; a nil state is an unrecovered panic
RunIsDone ==
    /\ runPc = "isDone"
    /\ runPc' = IF stateNil THEN "crashed"
                ELSE IF done THEN "returned" ELSE "bootstrap"
    /\ UNCHANGED << cycles, stateNil, done, status, leader, site, configRepo,
                    skillch, ready, terminates >>
    /\ HandlesUnchanged
    /\ HistoryUnchanged
    /\ UNCHANGED nonCo

\* Terminate: a nil state, a nil site or a nil config repository panics, and
\* the deferred recover ends the call there; s.state.mutex is locked on entry
\* and unlocked by a deferred call, so the send on skillch is made under it
Terminate ==
    /\ runPc # "crashed"
    /\ terminates < MaxTerminate
    /\ terminates' = terminates + 1
    /\ IF stateNil \/ done
       THEN UNCHANGED << done, site, configRepo, skillch, pastLatchAtTerminate,
                         lastSend >>
       ELSE /\ done' = TRUE
            /\ pastLatchAtTerminate' = pastLatchAtTerminate \cup
                   { c \in Callers : callerPc[c] \in { "enqueue", "waiting" } }
            /\ IF site = "nil"
               THEN UNCHANGED << site, configRepo, skillch, lastSend >>
               ELSE /\ site' = "nil"
                    /\ IF configRepo = "nil"
                       THEN UNCHANGED << configRepo, skillch, lastSend >>
                       ELSE /\ configRepo' = "nil"
                            /\ skillch' = skillch + 1
                            /\ lastSend' = [ ch |-> "skillch",
                                             holding |-> { "state.mutex" } ]
    /\ UNCHANGED << runPc, cycles, stateNil, status, leader, ready >>
    /\ HandlesUnchanged
    /\ UNCHANGED << logged, commitSignalled, committedTxns >>
    /\ UNCHANGED nonCo

\* NewRequest: waitForReady passes at once when ready, else parks in
\* cond.Wait()
NewRequest(c, id) ==
    /\ runPc # "crashed"
    /\ callerPc[c] = "idle"
    /\ reqIdOf' = [ reqIdOf EXCEPT ![c] = id ]
    /\ callerPc' = [ callerPc EXCEPT ![c] = IF ready THEN "enqueue" ELSE "latch" ]
    /\ UNCHANGED << handleErr, incomings, pendings, proposals, sent, nextTxn,
                    signals >>
    /\ RunUnchanged
    /\ HistoryUnchanged
    /\ UNCHANGED nonCo

\* waitForReady: a caller woken by cond.Signal() tests s.ready again
WaitForReadyRecheck(c) ==
    /\ runPc # "crashed"
    /\ callerPc[c] = "recheck"
    /\ callerPc' = [ callerPc EXCEPT ![c] = IF ready THEN "enqueue" ELSE "latch" ]
    /\ UNCHANGED << reqIdOf, handleErr, incomings, pendings, proposals, sent,
                    nextTxn, signals >>
    /\ RunUnchanged
    /\ HistoryUnchanged
    /\ UNCHANGED nonCo

\* NewRequest: s.state.incomings <- handle, then handle.CondVar.Wait(); the
\* caller holds the handle's mutex from before the send until Wait()
Enqueue(c) ==
    /\ runPc # "crashed"
    /\ callerPc[c] = "enqueue"
    /\ Len(incomings) < MAX_PROPOSALS
    /\ incomings' = Append(incomings, c)
    /\ callerPc' = [ callerPc EXCEPT ![c] = "waiting" ]
    /\ lastSend' = [ ch |-> "incomings", holding |-> { "handle.Mutex" } ]
    /\ UNCHANGED << reqIdOf, handleErr, pendings, proposals, sent, nextTxn,
                    signals >>
    /\ RunUnchanged
    /\ UNCHANGED << logged, commitSignalled, committedTxns, pastLatchAtTerminate >>
    /\ UNCHANGED nonCo

\* NewRequest: return handle.Err == nil
Return(c) ==
    /\ runPc # "crashed"
    /\ callerPc[c] = "woken"
    /\ callerPc' = [ callerPc EXCEPT ![c] = IF handleErr[c] THEN "false" ELSE "true" ]
    /\ UNCHANGED << reqIdOf, handleErr, incomings, pendings, proposals, sent,
                    nextTxn, signals >>
    /\ RunUnchanged
    /\ HistoryUnchanged
    /\ UNCHANGED nonCo

NoDefn == [ Bucket |-> "", Name |-> "", DefnId |-> 0 ]

\* the coordinator with timestamp proposals only
CoordNext ==
    \/ \E outcome \in { "env", "repo", "late", "ok" },
          wake \in Callers \cup { NoHandle } : Bootstrap(outcome, wake)
    \/ IsDone1
    \/ \E ok \in BOOLEAN : CreateElectionSite(ok)
    \/ \E elected \in { Self, Peer } : ElectionResult(elected)
    \/ ElectionFail
    \/ IsDone2
    \/ Dequeue
    \/ LogOwnProposal(OPCODE_NOTIFY_TIMESTAMP, NoDefn, NoFailure, LocalHost)
    \/ \E reqId \in ReqIds :
          LogPeerProposal(reqId, OPCODE_NOTIFY_TIMESTAMP, NoDefn, NoFailure,
                          LocalHost)
    \/ \E txnid \in Txnids : Commit(txnid)
    \/ \E killed \in BOOLEAN : ServerExit(killed)
    \/ cleanupState
    \/ RunIsDone
    \/ Terminate
    \/ \E c \in Callers : \E id \in ReqIdsOf(c) : NewRequest(c, id)
    \/ \E c \in Callers : WaitForReadyRecheck(c)
    \/ \E c \in Callers : Enqueue(c)
    \/ \E c \in Callers : Return(c)

(***************************************************************************)
(* Admin server: the message registry of httpServer.                       *)
(***************************************************************************)
\* strings are sequences of characters, so that concatenation is what the
\* code computes
UrlPrefixes == { << >>, << "/" >>, << "/", "a" >> }
\* the names msg.Name() returns; a message is identified with its name
MessageNames == { << "m" >>, << "/", "m" >>, << "a", "m" >> }
\* every key the registry is read or written under
AdminKeys ==
    { prefix \o name : prefix \in UrlPrefixes, name \in MessageNames }
        \cup MessageNames
\* the zero value of a map lookup
NoMessage == << >>
ErrorRegisteringRequest == "adminport.registeringRequest"
ErrorMessageUnknown == "adminport.unknownMessage"
NoError == "nil"
NoAdminCall == [ op |-> "none", msg |-> NoMessage, err |-> NoError ]

\* HTTP status codes: 200 is what net/http sends when the handler wrote
\* the body or returned without writing anything
StatusOK == 200
StatusNotFound == 404
StatusInternalServerError == 500

\* strings.HasPrefix
HasPrefix(s, prefix) ==
    Len(prefix) <= Len(s) /\ SubSeq(s, 1, Len(prefix)) = prefix

\* c.StatsURLPath: the path of the statistics under the service prefix
StatsURLPath(prefix, path) == prefix \o << "/", "stats" >> \o path

\* the URL paths of the requests made
RequestPaths ==
    AdminKeys \cup { StatsURLPath(prefix, << >>) : prefix \in UrlPrefixes }

\* s.messages[r.URL.Path]: nil when nothing is stored under the path
LookupMessage(msgs, path) ==
    IF path \in DOMAIN msgs THEN msgs[path] ELSE NoMessage

\* no request yet
NoRequest == [ path |-> << >>, status |-> 0, recovered |-> FALSE,
               forwarded |-> FALSE ]

\* systemHandler: the status the client receives, whether the deferred
\* recover caught a panic, whether the request was sent on s.reqch.
\* reflect.ValueOf(msg).Elem() panics on the nil message of an unknown path,
\* before the test msg == nil is reached
systemHandler(prefix, msgs, path, decodeOk, appOk) ==
    IF HasPrefix(path, StatsURLPath(prefix, << >>))
    THEN [ path |-> path, recovered |-> FALSE, forwarded |-> TRUE,
           status |-> IF appOk THEN StatusOK ELSE StatusInternalServerError ]
    ELSE IF LookupMessage(msgs, path) = NoMessage
    THEN [ path |-> path, recovered |-> TRUE, forwarded |-> FALSE,
           status |-> StatusOK ]
    ELSE IF ~ decodeOk
    THEN [ path |-> path, recovered |-> FALSE, forwarded |-> FALSE,
           status |-> StatusInternalServerError ]
    ELSE [ path |-> path, recovered |-> FALSE, forwarded |-> TRUE,
           status |-> IF appOk THEN StatusOK ELSE StatusInternalServerError ]

AdminInit ==
    /\ srv = "none"
    /\ urlPrefix = << >>
    /\ messages = [ key \in AdminKeys |-> NoMessage ]
    /\ admLast = [ call |-> NoAdminCall, before |-> messages ]
    /\ admPrev = [ call |-> NoAdminCall, before |-> messages ]
    /\ httpLast = NoRequest

\* the record of one call and of the registry it found
AdminCall(op, msg, err) ==
    /\ admLast' = [ call |-> [ op |-> op, msg |-> msg, err |-> err ],
                    before |-> messages ]
    /\ admPrev' = admLast
    /\ UNCHANGED httpLast

NewHTTPServer(prefix) ==
    /\ srv = "none"
    /\ srv' = "new"
    /\ urlPrefix' = prefix
    /\ messages' = [ key \in AdminKeys |-> NoMessage ]
    /\ UNCHANGED << admLast, admPrev, httpLast >>
    /\ UNCHANGED nonAd

\* the result of httpServer.Register: error and registry
Register(lisOpen, prefix, msgs, msg) ==
    IF lisOpen
    THEN [ err |-> ErrorRegisteringRequest, messages |-> msgs ]
    ELSE [ err |-> NoError,
           messages |-> [ msgs EXCEPT ![prefix \o msg] = msg ] ]

\* the result of httpServer.Unregister: the entry is looked up and deleted
\* under msg.Name()
Unregister(lisOpen, prefix, msgs, msg) ==
    IF lisOpen
    THEN [ err |-> ErrorRegisteringRequest, messages |-> msgs ]
    ELSE IF msgs[msg] = NoMessage
    THEN [ err |-> ErrorMessageUnknown, messages |-> msgs ]
    ELSE [ err |-> NoError,
           messages |-> [ msgs EXCEPT ![msg] = NoMessage ] ]

CallRegister(msg) ==
    /\ srv # "none"
    /\ LET res == Register(srv = "listening", urlPrefix, messages, msg)
       IN  /\ messages' = res.messages
           /\ AdminCall("Register", msg, res.err)
    /\ UNCHANGED << srv, urlPrefix >>
    /\ UNCHANGED nonAd

CallUnregister(msg) ==
    /\ srv # "none"
    /\ LET res == Unregister(srv = "listening", urlPrefix, messages, msg)
       IN  /\ messages' = res.messages
           /\ AdminCall("Unregister", msg, res.err)
    /\ UNCHANGED << srv, urlPrefix >>
    /\ UNCHANGED nonAd

\* Start: net.Listen succeeds or fails
Start(ok) ==
    /\ srv \in { "new", "stopped" }
    /\ srv' = IF ok THEN "listening" ELSE srv
    /\ AdminCall("Start", NoMessage, IF ok THEN NoError ELSE "listen")
    /\ UNCHANGED << urlPrefix, messages >>
    /\ UNCHANGED nonAd

\* Stop, or the serving routine's deferred shutdown: if s.lis # nil
AdminStop ==
    /\ srv # "none"
    /\ srv' = IF srv = "listening" THEN "stopped" ELSE srv
    /\ AdminCall("Stop", NoMessage, NoError)
    /\ UNCHANGED << urlPrefix, messages >>
    /\ UNCHANGED nonAd

\* the mux hands a request under the service prefix to systemHandler
\* while the server is listening
ServeRequest(path, decodeOk, appOk) ==
    /\ srv = "listening"
    /\ HasPrefix(path, urlPrefix)
    /\ httpLast' = systemHandler(urlPrefix, messages, path, decodeOk, appOk)
    /\ UNCHANGED << srv, urlPrefix, messages, admLast, admPrev >>
    /\ UNCHANGED nonAd

AdminNext ==
    \/ \E prefix \in UrlPrefixes : NewHTTPServer(prefix)
    \/ \E path \in RequestPaths, decodeOk \in BOOLEAN, appOk \in BOOLEAN :
          ServeRequest(path, decodeOk, appOk)
    \/ \E msg \in MessageNames : CallRegister(msg)
    \/ \E msg \in MessageNames : CallUnregister(msg)
    \/ \E ok \in BOOLEAN : Start(ok)
    \/ AdminStop

(***************************************************************************)
(* Coordinator: the quorum verifier.                                       *)
(***************************************************************************)
\* peers in the ensemble besides this node
MaxPeers == 8
PeerCounts == 0..MaxPeers
\* vote counts passed to HasQuorum (an int, so negative values too)
VoteCounts == (0 - 1)..(MaxPeers + 2)

\* GetEnsembleSize: len(c.getPeerUDPAddr()) + 1
GetEnsembleSize(peers) == peers + 1

\* HasQuorum: count > int(ensembleSz/2)
HasQuorum_atLeastHalf(peers, count) ==
    count >= GetEnsembleSize(peers) \div 2
HasQuorum(peers, count) ==
    count > GetEnsembleSize(peers) \div 2

NoQuorumCall == [ called |-> FALSE, peers |-> 0, count |-> 0, result |-> FALSE ]
QuorumInit == quorumCall = NoQuorumCall

CallHasQuorum(peers, count) ==
    /\ quorumCall' = [ called |-> TRUE, peers |-> peers, count |-> count,
                       result |-> HasQuorum(peers, count) ]
    /\ UNCHANGED nonQu

QuorumNext ==
    \E peers \in PeerCounts, count \in VoteCounts : CallHasQuorum(peers, count)

(***************************************************************************)
(* Specifications.                                                         *)
(***************************************************************************)
(***************************************************************************)
(* Indexer: the compaction daemon.                                         *)
(***************************************************************************)
\* strings the daemon transforms are sequences of characters
Sunday == << "S", "u", "n", "d", "a", "y" >>
Monday == << "M", "o", "n", "d", "a", "y" >>
Weekdays == { Sunday, Monday }

\* strings.ToLower, on the letters that occur
LowerOf(ch) == IF ch = "S" THEN "s" ELSE IF ch = "M" THEN "m" ELSE ch
ToLower(s) == [ i \in DOMAIN s |-> LowerOf(s[i]) ]

\* strings.TrimSpace
RECURSIVE TrimLeft(_)
TrimLeft(s) == IF s # << >> /\ Head(s) = " " THEN TrimLeft(Tail(s)) ELSE s
RECURSIVE TrimRight(_)
TrimRight(s) ==
    IF s # << >> /\ s[Len(s)] = " " THEN TrimRight(SubSeq(s, 1, Len(s) - 1))
    ELSE s
TrimSpace(s) == TrimRight(TrimLeft(s))

\* values of compaction_mode
CompactionModes == { << "f", "u", "l", "l" >>, << "F", "u", "l", "l" >>,
                     << "c", "i", "r", "c", "u", "l", "a", "r" >> }
ModeFull == << "f", "u", "l", "l" >>

\* values of interval, as fmt.Sscanf reads them: n fields scanned, then the
\* four numbers; the last one stands for a text Sscanf cannot read to the end
NoInterval == [ n |-> 4, start_hr |-> 0, start_min |-> 0, end_hr |-> 0,
                end_min |-> 0 ]
Intervals ==
    { NoInterval,
      [ n |-> 4, start_hr |-> 2, start_min |-> 0, end_hr |-> 4, end_min |-> 0 ],
      [ n |-> 4, start_hr |-> 22, start_min |-> 30, end_hr |-> 2, end_min |-> 0 ],
      [ n |-> 2, start_hr |-> 2, start_min |-> 0, end_hr |-> 0, end_min |-> 0 ] }

\* values of days_of_week
DaysOfWeek ==
    { << >>, << Sunday >>, << << " " >> \o ToLower(Monday) \o << " " >> >> }

\* the thresholds of full compaction: min_size in bytes, min_frag in percent
min_size == 1
min_frag == 30

Configs ==
    [ compaction_mode : CompactionModes, interval : Intervals,
      days_of_week : DaysOfWeek ]

\* time.Now(): hour, minute and weekday
Clocks == [ hr : { 3, 23 }, min : { 0, 45 }, weekday : Weekdays ]

\* IndexStorageStats of one index instance
MaxInsts == 2
StorageStats ==
    { [ DiskSize |-> 0, Fragmentation |-> 0, NeedUpgrade |-> FALSE ],
      [ DiskSize |-> 0, Fragmentation |-> 0, NeedUpgrade |-> TRUE ],
      [ DiskSize |-> 2, Fragmentation |-> 50, NeedUpgrade |-> FALSE ],
      [ DiskSize |-> 2, Fragmentation |-> 50, NeedUpgrade |-> TRUE ] }
\* the reply to MsgIndexStorageStats: instance i is the i-th entry
StatsReplies == UNION { [ 1..n -> StorageStats ] : n \in 0..MaxInsts }

NoTick == [ stats |-> << >>, compacted |-> { } ]

CompactInit ==
    /\ cdPc = "new"
    /\ cdConfig = [ compaction_mode |-> ModeFull, interval |-> NoInterval,
                    days_of_week |-> << >> ]
    /\ wallClock = [ hr |-> 3, min |-> 0, weekday |-> Sunday ]
    /\ lastTick = NoTick

\* the time of day is outside the interval, as needsCompaction computes it
outsideInterval(interval, now) ==
    /\ interval # NoInterval
    /\ interval.n = 4
    /\ LET start_min == interval.start_min + interval.start_hr * 60
           end_min == interval.end_min + interval.end_hr * 60
           min == now.min + now.hr * 60
       IN  min < start_min \/ min > end_min

\* needsCompaction with the thresholds of full compaction in every mode
needsCompaction_alwaysFull(is, conf, now) ==
    is.DiskSize > min_size /\ is.Fragmentation >= min_frag

\* needsCompaction
needsCompaction(is, conf, now) ==
    IF ToLower(conf.compaction_mode) = ModeFull
    THEN is.DiskSize > min_size /\ is.Fragmentation >= min_frag
    ELSE IF outsideInterval(conf.interval, now) THEN FALSE
    ELSE \E i \in DOMAIN conf.days_of_week :
            ToLower(TrimSpace(conf.days_of_week[i])) = ToLower(now.weekday)

\* Start
CdStart ==
    /\ cdPc = "new"
    /\ cdPc' = "waiting"
    /\ UNCHANGED << cdConfig, wallClock, lastTick >>
    /\ UNCHANGED nonCm

\* loop, case <-cd.timer.C: with forestdb storage the statistics are
\* fetched and MsgIndexCompact is sent for every instance that needs upgrade
\* or compaction
LoopTick(forestdb, stats) ==
    /\ cdPc = "waiting"
    /\ cdPc' = "ticked"
    /\ lastTick' =
         [ stats |-> IF forestdb THEN stats ELSE << >>,
           compacted |->
             IF forestdb
             THEN { i \in DOMAIN stats :
                      stats[i].NeedUpgrade
                        \/ needsCompaction(stats[i], cdConfig, wallClock) }
             ELSE { } ]
    /\ UNCHANGED << cdConfig, wallClock >>
    /\ UNCHANGED nonCm

\* loop: cd.timer.Reset(dur), back to the select
TimerReset ==
    /\ cdPc = "ticked"
    /\ cdPc' = "waiting"
    /\ UNCHANGED << cdConfig, wallClock, lastTick >>
    /\ UNCHANGED nonCm

\* ResetConfig
ResetConfig(c) ==
    /\ cdPc \in { "new", "waiting" }
    /\ cdConfig' = c
    /\ UNCHANGED << cdPc, wallClock, lastTick >>
    /\ UNCHANGED nonCm

\* time passes between two ticks
ClockAdvance(now) ==
    /\ cdPc = "waiting"
    /\ wallClock' = now
    /\ UNCHANGED << cdPc, cdConfig, lastTick >>
    /\ UNCHANGED nonCm

\* Stop, and loop's case <-cd.quitch
CdStop ==
    /\ cdPc = "waiting"
    /\ cdPc' = "stopped"
    /\ UNCHANGED << cdConfig, wallClock, lastTick >>
    /\ UNCHANGED nonCm

CompactNext ==
    \/ CdStart
    \/ \E forestdb \in BOOLEAN, stats \in StatsReplies : LoopTick(forestdb, stats)
    \/ TimerReset
    \/ \E c \in Configs : ResetConfig(c)
    \/ \E now \in Clocks : ClockAdvance(now)
    \/ CdStop

Init ==
    /\ DpInit /\ CoordInit /\ EpochInit /\ TopoInit /\ AdminInit /\ QuorumInit
    /\ CompactInit

Spec == Init /\ [][Next]_vars
SpecCoord == Init /\ [][CoordNext]_vars
SpecEpoch == Init /\ [][EpochNext]_vars
SpecTopo == Init /\ [][TopoNext]_vars
SpecAdmin == Init /\ [][AdminNext]_vars
SpecQuorum == Init /\ [][QuorumNext]_vars
SpecCompact == Init /\ [][CompactNext]_vars

\* the gen-server loop: whichever case the head of reqch selects
ActorNext ==
    \/ HandleNewConnection
    \/ HandleVbmap
    \/ HandleVbcontrol
    \/ HandleCloseCmd
    \/ HandleError

\* the remote addresses of the fair specification: one connection from
\* each of two hosts
FairRAddrs == { << "h1", 1 >>, << "h2", 1 >> }

\* the dataport serving FairRAddrs
NextFair ==
    \/ \E raddr \in FairRAddrs : ListenerAccept(raddr)
    \/ ListenerFail
    \/ ActorNext
    \/ \E r \in BagToSet(readers), vbmap \in VbmapInputs : ReaderReceiveVbmap(r, vbmap)
    \/ \E r \in BagToSet(readers), vbs \in BatchInputs : ReaderReceiveBatch(r, vbs)
    \/ \E r \in BagToSet(readers) : ReaderReceiveOther(r)
    \/ \E r \in BagToSet(readers), err \in TransportErrors \cup { ErrClosedConn } :
          ReaderReceiveError(r, err)
    \/ \E r \in BagToSet(readers) : ReaderSelectPublish(r)
    \/ \E r \in BagToSet(readers) : ReaderSendControl(r)
    \/ \E r \in BagToSet(readers) : ReaderSelectKilled(r)
    \/ AppReceive
    \/ AppClose
    \/ CloserSend
    \/ \E at \in { "send", "wait", "replied" } : CloserFinch(at)
    \/ CloserResponse

\* the dataport with its scheduling: the gen-server goroutine runs whenever
\* reqch holds a message, and a Close() blocked in FailsafeOp's select
\* proceeds once reqch has room, finch is closed or respch holds the reply
SpecFair ==
    /\ Init
    /\ [][NextFair]_vars
    /\ WF_vars(ActorNext)
    /\ WF_vars(CloserSend)
    /\ WF_vars(\E at \in { "send", "wait", "replied" } : CloserFinch(at))
    /\ WF_vars(CloserResponse)

(***************************************************************************)
(* Dataport: claims.                                                       *)
(***************************************************************************)
\* C1: no (bucket, vbno) pair appears in the remote-uuid map under two
\* distinct remote addresses.
C1_NoBvbUnderTwoRemotes ==
    \A r1 \in RAddrs : \A r2 \in RAddrs \ { r1 } :
        Range(remoteUuids[r1]) \cap Range(remoteUuids[r2]) = { }

\* C2: once the gen-server has closed a connection (its socket and its
\* worker channel), no batch read from that connection is published to the
\* mutation channel.
C2_NoPublishAfterClose ==
    [][ Len(mutch') > Len(mutch) =>
          ~ ( mutch'[Len(mutch')].sock \in sockClosed
              /\ mutch'[Len(mutch')].sock \in workerClosed ) ]_vars

C4_SignalledAfterTerminate ==
    \A c \in pastLatchAtTerminate :
        ~ (runPc = "returned" /\ callerPc[c] = "waiting")

\* C5: NewRequest returns true only if the proposal made for its own request
\* was committed; a handle signalled by anything but a commit has Err set.
C5_TrueOnlyAfterOwnCommit ==
    \A c \in Callers :
        /\ callerPc[c] = "true" =>
               \E t \in committedTxns : logged[t].origin = c
        /\ (signals[c] > 0 /\ c \notin commitSignalled) => handleErr[c]

\* C6: each entry proposals[txnid] holds the handle that was in pendings
\* under the proposal's request id just before the proposal was logged, and
\* that proposal carries this node's follower id.
C6_ProposalsComeFromPendings ==
    \A t \in Txnids :
        proposals[t] # NoHandle =>
            /\ logged[t].fid = Self
            /\ logged[t].prev = proposals[t]
            /\ logged[t].reqId = reqIdOf[proposals[t]]

\* a handle is in proposals while another handle is pending
C6_Witness ==
    \E t \in Txnids : \E id \in ReqIds :
        /\ proposals[t] # NoHandle
        /\ pendings[id] # NoHandle

\* C7: a handle is in at most one of incomings, pendings and proposals.
C7_OneStageAtATime ==
    \A c \in Callers : TimesHeld(c) <= 1

\* one handle is in proposals, another one is queued in incomings
C7_Witness ==
    \E t \in Txnids :
        /\ proposals[t] # NoHandle
        /\ incomings # << >>
        /\ Head(incomings) # proposals[t]

(***************************************************************************)
(* Coordinator: claims on epochs.                                          *)
(***************************************************************************)
\* C8: no callback lowers a stored epoch, and a callback whose epoch is not
\* strictly greater than the stored one leaves it unchanged.
C8_EpochsNeverDecrease ==
    lastCall.op # "none" =>
        /\ config.acceptedEpoch >= lastCall.before.acceptedEpoch
        /\ config.currentEpoch >= lastCall.before.currentEpoch
        /\ (lastCall.op = "accepted"
              /\ lastCall.epoch <= lastCall.before.acceptedEpoch)
               => config.acceptedEpoch = lastCall.before.acceptedEpoch
        /\ (lastCall.op = "current"
              /\ lastCall.epoch <= lastCall.before.currentEpoch)
               => config.currentEpoch = lastCall.before.currentEpoch

\* C9 as stated: the stored acceptedEpoch never exceeds the stored
\* currentEpoch.
C9_AcceptedAtMostCurrent ==
    config.acceptedEpoch <= config.currentEpoch

\* C9 amended: each callback writes its own epoch only, so the two stored
\* epochs are independent: NotifyNewAcceptedEpoch leaves currentEpoch as it
\* was and NotifyNewCurrentEpoch leaves acceptedEpoch as it was.
C9_EpochsIndependent ==
    /\ lastCall.op = "accepted" =>
           config.currentEpoch = lastCall.before.currentEpoch
    /\ lastCall.op = "current" =>
           config.acceptedEpoch = lastCall.before.acceptedEpoch

\* NotifyNewAcceptedEpoch has stored an epoch above the stored currentEpoch
C9_Witness ==
    /\ lastCall.op = "accepted"
    /\ config.acceptedEpoch = lastCall.epoch
    /\ config.acceptedEpoch > config.currentEpoch

(***************************************************************************)
(* Coordinator: claims on the topology.                                    *)
(***************************************************************************)
\* C10: every bucket with a persisted bucket topology has its topology key
\* in the persisted global topology.
C10_TopologyListedInGlobal ==
    \A b \in TopoBuckets :
        repo.topologies[b].present =>
            /\ repo.global.present
            /\ indexTopologyKey(b) \in repo.global.TopologyKeys

\* C11: every application that changes the persisted topology of a bucket
\* persists a version strictly greater than the one persisted before.
C11_VersionStrictlyIncreases ==
    [][ \A b \in TopoBuckets :
          (repo.topologies[b].present /\ repo'.topologies[b] # repo.topologies[b])
              => repo'.topologies[b].Version > repo.topologies[b].Version ]_vars

(***************************************************************************)
(* Admin server: claims.                                                   *)
(***************************************************************************)
\* C12: on a server that is not started, Register(m) directly followed by
\* Unregister(m) returns no error from Unregister and leaves the registry
\* as it was before the Register.
C12_RegisterThenUnregister ==
    ( /\ admLast.call.op = "Unregister"
      /\ admPrev.call.op = "Register"
      /\ admPrev.call.msg = admLast.call.msg
      /\ admPrev.call.err = NoError )
        => ( admLast.call.err = NoError /\ messages = admPrev.before )

(***************************************************************************)
(* Topology: ADD_IDX_DEFN followed by DEL_IDX_DEFN.                        *)
(***************************************************************************)
\* the leader has applied ADD_IDX_DEFN with success and, directly after it,
\* DEL_IDX_DEFN for the same bucket and name, no repository call failing
AddThenDel ==
    /\ lastApply.op = "del" /\ ~ lastApply.failed
    /\ prevApply.op = "add" /\ ~ prevApply.failed /\ prevApply.ok
    /\ prevApply.Bucket = lastApply.Bucket
    /\ prevApply.Name = lastApply.Name

\* C13: after ADD_IDX_DEFN then DEL_IDX_DEFN for the same bucket and name,
\* without a repository failure, the repository holds no definition of that
\* bucket and name and the instance the ADD created is in state DELETED in
\* the bucket topology.
C13_AddThenDelLeavesDeleted ==
    AddThenDel =>
        /\ ~ \E d \in repo.defns :
                d.Bucket = lastApply.Bucket /\ d.Name = lastApply.Name
        /\ \E i \in 1..Len(repo.topologies[lastApply.Bucket].Definitions) :
              LET ref == repo.topologies[lastApply.Bucket].Definitions[i]
              IN  ref.InstId = prevApply.instId /\ ref.State = INDEX_STATE_DELETED

(***************************************************************************)
(* Quorum: claims.                                                         *)
(***************************************************************************)
\* C14: HasQuorum(count) is true exactly when count is a strict majority of
\* the ensemble of peers + 1 nodes (2 * count > peers + 1), so two vote
\* counts that both have quorum add up to more than the ensemble.
C14_QuorumIsStrictMajority ==
    quorumCall.called =>
        /\ quorumCall.result = (2 * quorumCall.count > quorumCall.peers + 1)
        /\ \A other \in VoteCounts :
              (quorumCall.result /\ HasQuorum(quorumCall.peers, other))
                  => quorumCall.count + other > quorumCall.peers + 1
\* a call on an ensemble of four nodes with three votes, which has quorum
C14_Witness ==
    /\ quorumCall.called
    /\ quorumCall.peers = 3
    /\ quorumCall.count = 3
    /\ quorumCall.result

(***************************************************************************)
(* Dataport: claims about vb-control, faults and Close.                    *)
(***************************************************************************)
\* the gen-server takes the message at the head of reqch in this step
ActorStep(cmd) ==
    /\ ~ crashed
    /\ actorPc = "running"
    /\ reqch # << >>
    /\ Head(reqch).cmd = cmd
    /\ reqch' = Tail(reqch)

\* the pairs a sideband event lists, and every pair the gen-server tracks
EventPairs(ev) ==
    UNION { { << e.Bucket, e.Vbuckets[i] >> : i \in DOMAIN e.Vbuckets } :
            e \in ev.buckets }
TrackedPairs(uuidsOf) == UNION { Range(uuidsOf[raddr]) : raddr \in RAddrs }

\* C15: a StreamBegin for a pair that the vbmap of the same connection
\* registered is folded silently: no sideband event, the gen-server and the
\* listener keep running, no connection is closed and the remote-uuid list
\* of the connection is unchanged.
C15_StreamBeginAfterVbmapFolded ==
    [][ ( /\ ActorStep(serverCmdVbcontrol)
          /\ InConns(conns, Head(reqch).raddr)
          /\ Head(reqch).started # << >>
          /\ Head(reqch).finished = << >>
          /\ \A i \in DOMAIN Head(reqch).started :
                /\ Head(reqch).started[i] \in vbmapped[Head(reqch).raddr]
                /\ Head(reqch).started[i] \in
                      Range(remoteUuids[Head(reqch).raddr]) )
        => ( /\ sbch' = sbch
             /\ actorPc' = "running"
             /\ lis' = lis
             /\ conns' = conns
             /\ sockClosed' = sockClosed
             /\ remoteUuids' = remoteUuids ) ]_vars

\* C18: a vb-control message whose started list holds a pair that is already
\* tracked makes the gen-server close every connection, emit one
\* ShutdownDataport event that covers every tracked pair, and shut the
\* server down.  (Once the gen-server has exited nothing sends on the
\* sideband channel, so the event is emitted in this step or never.)
C18_DuplicateStreamBeginShutsDown ==
    [][ ( /\ ActorStep(serverCmdVbcontrol)
          /\ \E i \in DOMAIN Head(reqch).started :
                Head(reqch).started[i] \in TrackedPairs(remoteUuids) )
        => ( /\ conns' = [ raddr \in RAddrs |-> NoSock ]
             /\ ConnSocks(conns) \subseteq sockClosed'
             /\ lis' = "closed"
             /\ actorPc' = "exited"
             /\ Len(sbch') = Len(sbch) + 1
             /\ sbch'[Len(sbch')].kind = "ShutdownDataport"
             /\ EventPairs(sbch'[Len(sbch')]) = TrackedPairs(remoteUuids) ) ]_vars

\* the gen-server handles error(raddr, io.EOF or timeout) for a raddr that
\* is in the connection table
CloseRemoteStep ==
    /\ ActorStep(serverCmdError)
    /\ InConns(conns, Head(reqch).raddr)
    /\ Head(reqch).err \in { ErrEOF, ErrTimeout }

\* the connections of the faulted host
SameHostConns ==
    { raddr \in RAddrs : /\ conns[raddr] # NoSock
                         /\ raddr[1] = Head(reqch).raddr[1] }

\* C16: a close-remote closes and removes exactly the connections of the
\* faulted host; every connection of another host stays in the table, open,
\* and its reader is left alone.
C16_CloseRemoteOnlyFaultedHost ==
    [][ CloseRemoteStep =>
          /\ \A raddr \in SameHostConns :
                /\ conns'[raddr] = NoSock
                /\ conns[raddr] \in sockClosed'
                /\ conns[raddr] \in workerClosed'
          /\ \A raddr \in RAddrs \ SameHostConns :
                /\ conns'[raddr] = conns[raddr]
                /\ conns[raddr] \in sockClosed' <=> conns[raddr] \in sockClosed
                /\ conns[raddr] \in workerClosed' <=> conns[raddr] \in workerClosed
          /\ readers' = readers ]_vars
\* a close-remote has closed h1:1 while a connection of h2 is in the table
\* and open
C16_Witness ==
    /\ \E i \in DOMAIN sbch : sbch[i].kind = "RestartVbuckets"
    /\ conns[<< "h1", 1 >>] = NoSock
    /\ << << "h1", 1 >>, 1 >> \in sockClosed
    /\ conns[<< "h2", 1 >>] # NoSock
    /\ conns[<< "h2", 1 >>] \notin sockClosed
    /\ actorPc = "running"

\* C17: the RestartVbuckets event of a close-remote lists every bucket once
\* and, over its buckets, exactly the pairs tracked for the closed
\* connections, each of them once.
C17_RestartEventExact ==
    [][ CloseRemoteStep =>
          /\ Len(sbch') = Len(sbch) + 1
          /\ LET ev == sbch'[Len(sbch')]
             IN  /\ ev.kind = "RestartVbuckets"
                 /\ \A e1, e2 \in ev.buckets : e1.Bucket = e2.Bucket => e1 = e2
                 /\ EventPairs(ev) = UNION { Range(remoteUuids[raddr]) :
                                                raddr \in SameHostConns }
                 /\ \A e \in ev.buckets : \A i, j \in DOMAIN e.Vbuckets :
                       e.Vbuckets[i] = e.Vbuckets[j] => i = j ]_vars


\* the gen-server takes error(raddr, err) for a tracked raddr with an err
\* that is neither io.EOF nor a timeout
CloseAllStep ==
    /\ ActorStep(serverCmdError)
    /\ InConns(conns, Head(reqch).raddr)
    /\ Head(reqch).err \notin { ErrEOF, ErrTimeout, "" }

\* a ShutdownDataport event has been sent on the sideband channel
ShutdownSignalled == \E i \in DOMAIN sbch : sbch[i].kind = "ShutdownDataport"

\* the server is down: no connection left in the table, the listener closed,
\* the gen-server returned (or the whole process died of a panic)
ServerDown ==
    \/ crashed
    \/ /\ \A raddr \in RAddrs : conns[raddr] = NoSock
       /\ lis = "closed"
       /\ actorPc = "exited"

\* C19: handling error(raddr, err) for a raddr in the connection table, with
\* err neither io.EOF nor a timeout, sends exactly one ShutdownDataport event
\* whose (bucket, vbno) pairs are the pairs tracked for any remote, and
\* starts a Close() call;
\* and once such an event was sent, eventually no connection is left, the
\* listener is closed and the gen-server has exited.
C19_CloseAllShutsDown ==
    /\ [][ CloseAllStep =>
             /\ Len(sbch') = Len(sbch) + 1
             /\ sbch'[Len(sbch')].kind = "ShutdownDataport"
             /\ EventPairs(sbch'[Len(sbch')]) = TrackedPairs(remoteUuids)
             /\ closers'.send = closers.send + 1 ]_vars
    /\ (ShutdownSignalled ~> ServerDown)

\* C19 witness: after the ShutdownDataport event for a tracked pair, the
\* gen-server has exited with the listener closed and the table empty
C19_Witness ==
    /\ \E i \in DOMAIN sbch :
          /\ sbch[i].kind = "ShutdownDataport"
          /\ << "b1", 0 >> \in EventPairs(sbch[i])
    /\ ~ crashed
    /\ actorPc = "exited"
    /\ lis = "closed"
    /\ \A raddr \in RAddrs : conns[raddr] = NoSock
    /\ << << "h1", 1 >>, 1 >> \in sockClosed

\* Close() calls that have not returned yet
ClosesInFlight == closers.send + closers.wait + closers.replied

\* a Close() call returns nil: FailsafeOp received the reply from respch
CloseReturnsNil ==
    /\ closers.replied > 0
    /\ closers' = [ closers EXCEPT !.replied = @ - 1 ]

\* C20: when a Close() call returns without error, the gen-server has
\* closed the listener, emptied the connection table, closed finch and
\* returned, and every reader task still alive has its socket and its worker
\* channel closed; and every Close() call eventually returns: again and
\* again no call is in progress (unless a panic killed the process).
C20_CloseIsSynchronous ==
    /\ [][ CloseReturnsNil =>
             /\ lis = "closed"
             /\ \A raddr \in RAddrs : conns[raddr] = NoSock
             /\ finch
             /\ actorPc = "exited"
             /\ \A r \in BagToSet(readers) :
                   r.sock \in sockClosed /\ r.sock \in workerClosed ]_vars
    /\ []<>(crashed \/ ClosesInFlight = 0)

\* C20 witness: the application's Close() has returned after the gen-server
\* closed an accepted connection and exited
C20_Witness ==
    /\ appCloses = 1
    /\ ClosesInFlight = 0
    /\ ~ crashed
    /\ ~ ShutdownSignalled
    /\ actorPc = "exited"
    /\ finch
    /\ << << "h1", 1 >>, 1 >> \in sockClosed
    /\ << << "h1", 1 >>, 1 >> \in workerClosed

(***************************************************************************)
(* Coordinator: claims on termination, commit order and bootstrap.         *)
(***************************************************************************)
\* a Terminate() call that found a coordinator state and returns
TerminateReturns == terminates' = terminates + 1 /\ ~ stateNil

\* C21: when a Terminate() call returns, the run loop has finished
\* cleanupState: readiness is lowered, runOnce is past its deferred cleanup
\* and no caller is still parked on its request handle.
C21_TerminateIsSynchronous ==
    [][ TerminateReturns =>
          /\ ~ ready'
          /\ runPc' \in { "isDone", "returned", "bootstrap" }
          /\ \A c \in Callers : callerPc'[c] # "waiting" ]_vars

\* the leader serving index DDL: one client, one index definition
DdlCallers == { 1 }
DdlDefns == { [ Bucket |-> "b1", Name |-> "i1", DefnId |-> 1 ] }

\* the coordinator with ADD_IDX_DEFN and DEL_IDX_DEFN proposals
DdlNext ==
    \/ \E outcome \in { "env", "repo", "late", "ok" },
          wake \in DdlCallers \cup { NoHandle } : Bootstrap(outcome, wake)
    \/ IsDone1
    \/ \E ok \in BOOLEAN : CreateElectionSite(ok)
    \/ \E elected \in { Self, Peer } : ElectionResult(elected)
    \/ ElectionFail
    \/ IsDone2
    \/ Dequeue
    \/ \E defn \in DdlDefns, fail \in AddFailures \cup { NoFailure },
          host \in IndexHosts :
          LogOwnProposal(OPCODE_ADD_IDX_DEFN, defn, fail, host)
    \/ \E defn \in DdlDefns, fail \in DelFailures \cup { NoFailure } :
          LogOwnProposal(OPCODE_DEL_IDX_DEFN, defn, fail, LocalHost)
    \/ \E reqId \in ReqIds, defn \in DdlDefns,
          fail \in AddFailures \cup { NoFailure }, host \in IndexHosts :
          LogPeerProposal(reqId, OPCODE_ADD_IDX_DEFN, defn, fail, host)
    \/ \E txnid \in Txnids : Commit(txnid)
    \/ \E killed \in BOOLEAN : ServerExit(killed)
    \/ cleanupState
    \/ RunIsDone
    \/ Terminate
    \/ \E c \in DdlCallers : \E id \in ReqIdsOf(c) : NewRequest(c, id)
    \/ \E c \in DdlCallers : WaitForReadyRecheck(c)
    \/ \E c \in DdlCallers : Enqueue(c)
    \/ \E c \in DdlCallers : Return(c)

SpecDdl == Init /\ [][DdlNext]_vars

\* the repository as NewCoordinator receives it: nothing stored
EmptyRepo ==
    [ defns |-> { },
      topologies |-> [ b \in TopoBuckets |-> NoTopology ],
      global |-> NoGlobalTopology,
      nextInstId |-> 1 ]

\* C22: the repository and the topology are changed for an ADD_IDX_DEFN or
\* DEL_IDX_DEFN proposal only after its txnid is committed: while no txnid
\* has been committed, the repository is as it was at the start.
C22_ApplyOnlyAfterCommit ==
    committedTxns = { } => repo = EmptyRepo

\* C23: when applying a locally originated ADD_IDX_DEFN failed (createIndex
\* returned false), NewRequest does not return true for that request.
C23_FailedAddNotReportedAsSuccess ==
    \A c \in Callers, t \in Txnids :
        (logged[t].fid = Self /\ logged[t].origin = c
           /\ lastApply.op = "add" /\ ~ lastApply.ok)
        => callerPc[c] # "true"

(***************************************************************************)
(* Admin server: claims on request handling.                               *)
(***************************************************************************)
\* C24: a request under the service prefix whose path is not the statistics
\* path and has no registered message is answered with 404, is not sent on
\* the application request queue, and the handler does not panic on it.
C24_UnknownPathIs404 ==
    [][ (/\ httpLast' # httpLast
         /\ ~ HasPrefix(httpLast'.path, StatsURLPath(urlPrefix, << >>))
         /\ LookupMessage(messages, httpLast'.path) = NoMessage)
        => /\ httpLast'.status = StatusNotFound
           /\ ~ httpLast'.forwarded
           /\ ~ httpLast'.recovered ]_vars

(***************************************************************************)
(* Compaction daemon: claims.                                              *)
(***************************************************************************)
\* a timer tick in circular mode, at a time of day outside the configured
\* interval and on a day that is not one of days_of_week
TickOutsideWindow ==
    /\ cdPc = "waiting" /\ cdPc' = "ticked"
    /\ ToLower(cdConfig.compaction_mode) # ModeFull
    /\ outsideInterval(cdConfig.interval, wallClock)
    /\ \A i \in DOMAIN cdConfig.days_of_week :
          ToLower(TrimSpace(cdConfig.days_of_week[i])) # ToLower(wallClock.weekday)

\* C25: on such a tick no compaction request is sent for any index
\* instance, whatever its statistics.
C25_NoCompactionOutsideWindow ==
    [][ TickOutsideWindow => lastTick'.compacted = { } ]_vars

\* C25 amended: on such a tick a compaction request is sent only for the
\* instances whose statistics say they need upgrade, whatever their
\* fragmentation and disk size.
C25_OnlyUpgradeOutsideWindow ==
    [][ TickOutsideWindow =>
          lastTick'.compacted =
              { i \in DOMAIN lastTick'.stats : lastTick'.stats[i].NeedUpgrade } ]_vars

\* C25 witness: a tick in circular mode, interval 02:00 to 04:00, Sunday
\* configured, on Monday at 23:45, with a fragmented instance that was not
\* compacted
C25_Witness ==
    /\ cdPc = "ticked"
    /\ ToLower(cdConfig.compaction_mode) # ModeFull
    /\ cdConfig.interval.start_hr = 2 /\ cdConfig.interval.n = 4
    /\ cdConfig.days_of_week = << Sunday >>
    /\ wallClock = [ hr |-> 23, min |-> 45, weekday |-> Monday ]
    /\ Len(lastTick.stats) = 2
    /\ lastTick.stats[1].Fragmentation = 50 /\ lastTick.stats[1].DiskSize = 2
    /\ ~ lastTick.stats[1].NeedUpgrade
    /\ lastTick.stats[2].NeedUpgrade
    /\ lastTick.compacted = { 2 }

(***************************************************************************)
(* Dataport: claims on readers and panics.                                 *)
(***************************************************************************)
\* the gen-server takes a new-connection message whose raddr is not in the
\* connection table
NewConnectionStep ==
    /\ ActorStep(serverCmdNewConnection)
    /\ ~ InConns(conns, Head(reqch).raddr)

\* C26: handling such a message allocates the connection record, starts no
\* reader and emits no sideband event.
C26_NoReaderBeforeVbmap ==
    [][ NewConnectionStep =>
          /\ conns'[Head(reqch).raddr] = Head(reqch).sock
          /\ readers' = readers
          /\ sbch' = sbch ]_vars

\* C26 amended: handling such a message allocates the connection record,
\* gives the connection an empty remote-uuid list, starts the reader of the
\* connection at once (the reader that will receive the vbmap) and emits no
\* sideband event.
C26_ReaderStartedOnNewConnection ==
    [][ NewConnectionStep =>
          /\ conns'[Head(reqch).raddr] = Head(reqch).sock
          /\ remoteUuids'[Head(reqch).raddr] = << >>
          /\ readers' = readers (+) SetToBag({ Reader(Head(reqch).sock) })
          /\ sbch' = sbch ]_vars

\* C26 witness: a connection is in the table with its reader waiting in
\* Receive, and no vbmap has been received on any connection
C26_Witness ==
    /\ conns[<< "h1", 1 >>] = << << "h1", 1 >>, 1 >>
    /\ BagIn(Reader(<< << "h1", 1 >>, 1 >>), readers)
    /\ frames = 0
    /\ sbch = << >>
    /\ \A raddr \in RAddrs : vbmapped[raddr] = { }

\* a reader returns from Receive with a frame
ReaderReceivesFrame ==
    /\ ~ crashed
    /\ frames' = frames + 1
    /\ \E r \in BagToSet(readers) : r.pc = "recv"

\* C27: whatever a reader receives, a panic in it is contained: the process
\* keeps running, and the gen-server, the table and the other readers are
\* as they were.
C27_ReaderPanicContained ==
    [][ ReaderReceivesFrame =>
          /\ ~ crashed'
          /\ actorPc' = actorPc
          /\ conns' = conns ]_vars


(***************************************************************************)
(* Dataport: a panic of the gen-server.                                    *)
(***************************************************************************)
\* the gen-server takes a vb-control message whose StreamBegin names a pair
\* it already tracks for the connection: addUuids fails and genServer panics
ActorPanics ==
    /\ ActorStep(serverCmdVbcontrol)
    /\ Len(Head(reqch).started) > 0
    /\ addUuids(Head(reqch).started, remoteUuids[Head(reqch).raddr]).err # ""

\* C28: when the gen-server panics while handling a message, it does what a
\* close message does before it ends: the listener is closed, every connection
\* of the table and its reader control channel is closed, the table is empty
\* and the shutdown latch is closed, and afterwards no reader holds a
\* connection that is still open.
C28_PanicRunsClose ==
    [][ ActorPanics =>
          /\ lis' = "closed"
          /\ ConnSocks(conns) \subseteq sockClosed'
          /\ ConnSocks(conns) \subseteq workerClosed'
          /\ conns' = [ raddr \in RAddrs |-> NoSock ]
          /\ finch'
          /\ actorPc' = "exited"
          /\ \A r \in BagToSet(readers') : r.sock \in sockClosed' ]_vars

\* the gen-server has ended on a panic while two connections were in the
\* table: both are closed, the table is empty and the latch is closed
C28_Witness ==
    /\ actorPc = "exited"
    /\ appCloses = 0
    /\ closers = [ send |-> 0, wait |-> 0, replied |-> 0 ]
    /\ finch
    /\ lis = "closed"
    /\ Cardinality(sockClosed) >= 2
    /\ sockClosed \subseteq workerClosed
    /\ conns = [ raddr \in RAddrs |-> NoSock ]


(***************************************************************************)
(* Coordinator: channel sends and the state mutex.                         *)
(***************************************************************************)
\* C29: no operation of the coordinator sends on a bounded channel
\* (incomings or skillch) while it holds the mutex of the coordinator state.
C29_NoSendUnderStateMutex ==
    lastSend.ch \in { "incomings", "skillch" } =>
        "state.mutex" \notin lastSend.holding


(***************************************************************************)
(* Coordinator: a Run cycle whose bootstrap failed.                        *)
(***************************************************************************)
\* C30: a Run cycle whose bootstrap failed does not raise the readiness latch
\* and runs neither the election nor the leader/follower protocol.  The latch
\* is raised only by a successful bootstrap and lowered only by the cleanup
\* that ends the cycle, so the run loop is in the election or in the protocol
\* only while the latch is raised.
C30_FailedBootstrapEndsCycle ==
    runPc \in { "createSite", "electing", "isDone2", "serve" } => ready


(***************************************************************************)
(* Coordinator: the host of a new index.                                   *)
(***************************************************************************)
\* an ADD_IDX_DEFN is applied with no failing call while the global topology
\* and every bucket topology it references can be read
AddWithReadableTopology ==
    /\ applied' = applied + 1
    /\ lastApply'.op = "add"
    /\ lastApply'.ok
    /\ ~ lastApply'.failed
    /\ repo.global.present
    /\ \A key \in repo.global.TopologyKeys :
          repo.topologies[getBucketFromTopologyKey(key)].present

\* the host of the definition the latest application appended
ChosenHost(r, bucket) ==
    r.topologies[bucket].Definitions[Len(r.topologies[bucket].Definitions)].Host

\* C31: when the global topology and every bucket topology it references are
\* readable, the host chosen for a new index is the local host or a peer host,
\* and no such host has fewer slices, counted over the bucket topologies the
\* global topology references, than the chosen one.
C31_LeastLoadedHostChosen ==
    [][ AddWithReadableTopology =>
          LET h == ChosenHost(repo', lastApply'.Bucket)
          IN  /\ h \in IndexHosts
              /\ \A g \in IndexHosts :
                    indexCount(repo, repo.global.TopologyKeys, h)
                        <= indexCount(repo, repo.global.TopologyKeys, g) ]_vars

\* the second index of b1 went to the peer host, the local host having one
\* slice and the peer none
C31_Witness ==
    /\ lastApply.op = "add" /\ lastApply.ok /\ ~ lastApply.failed
    /\ prevApply.op = "add" /\ prevApply.ok
    /\ applied = 2
    /\ Len(repo.topologies["b1"].Definitions) = 2
    /\ repo.topologies["b1"].Definitions[1].Host = LocalHost
    /\ repo.topologies["b1"].Definitions[2].Host \in PeerHosts


(***************************************************************************)
(* Coordinator: a follower and the proposals of other nodes.               *)
(***************************************************************************)
\* as a follower, the coordinator logs a proposal that another node originated
FollowerLogsPeerProposal ==
    /\ runPc = "serve"
    /\ status = FOLLOWING
    /\ nextTxn <= MaxTxn
    /\ nextTxn' = nextTxn + 1
    /\ logged'[nextTxn].fid = Peer

\* C32: a follower that receives an ADD_IDX_DEFN or DEL_IDX_DEFN proposal of
\* another node applies it to its repository and topology, and signals no
\* local waiter for it (every proposal of this specification is one of the two).
C32_FollowerAppliesPeerDdl ==
    [][ FollowerLogsPeerProposal =>
          /\ applied' = applied + 1
          /\ lastApply'.op \in { "add", "del" }
          /\ signals' = signals
          /\ callerPc' = callerPc
          /\ proposals' = proposals ]_vars


(***************************************************************************)
(* Dataport: a remote that connects again from the same address.           *)
(***************************************************************************)
\* two connections of one host
ReuseRAddrs == { << "h1", 1 >>, << "h1", 2 >> }
\* the batches the remotes send: one StreamBegin, or one upsert
ReuseBatches ==
    { << [ bvb |-> << "b1", 0 >>, cmd |-> CmdStreamBegin ] >>,
      << [ bvb |-> << "b1", 0 >>, cmd |-> CmdUpsert ] >> }

\* the dataport serving ReuseRAddrs, whose remotes send batches, close their
\* end and connect again; the application only receives
NextReuse ==
    \/ \E raddr \in ReuseRAddrs : ListenerAccept(raddr)
    \/ \E raddr \in ReuseRAddrs : ListenerAcceptAgain(raddr)
    \/ HandleNewConnection
    \/ HandleVbcontrol
    \/ HandleError
    \/ \E r \in BagToSet(readers), vbs \in ReuseBatches : ReaderReceiveBatch(r, vbs)
    \/ \E r \in BagToSet(readers), err \in { ErrEOF, ErrClosedConn } :
          ReaderReceiveError(r, err)
    \/ \E r \in BagToSet(readers) : ReaderSelectPublish(r)
    \/ \E r \in BagToSet(readers) : ReaderSendControl(r)
    \/ \E r \in BagToSet(readers) : ReaderSelectKilled(r)
    \/ AppReceive

SpecReuse == Init /\ [][NextReuse]_vars

\* the reader tasks running on a socket
ReadersOn(sock) ==
    LET on == { r \in BagToSet(readers) : r.sock = sock }
    IN  IF on = { } THEN 0
        ELSE IF Cardinality(on) > 1 THEN 2
        ELSE CopiesIn(CHOOSE r \in on : TRUE, readers)

\* C33: at every moment at most one reader task runs for a connection, and
\* the batches of one connection stand in the mutation channel in the order
\* their frames were received.
C33_OneReaderPerConnection ==
    /\ \A r \in BagToSet(readers) : ReadersOn(r.sock) <= 1
    /\ \A i, j \in DOMAIN mutch :
          (i < j /\ mutch[i].sock = mutch[j].sock) => mutch[i].no < mutch[j].no


(***************************************************************************)
(* Dataport: a fault of the listener.                                      *)
(***************************************************************************)
\* the gen-server takes the ErrorDaemonExit message of the listener while
\* the server has not been closed
ActorTakesDaemonExit ==
    /\ ActorStep(serverCmdError)
    /\ Head(reqch).err = ErrorDaemonExit
    /\ lis = "open"
    /\ ~ finch

\* C34: the daemon-exit error the failed listener leaves on the gen-server
\* queue is terminal: handling it, the gen-server notifies the application
\* with a ShutdownDataport event on the sideband channel and starts the
\* shutdown of the server (a Close() that closes every connection).
C34_ListenerFaultShutsDown ==
    [][ ActorTakesDaemonExit =>
          /\ Len(sbch') = Len(sbch) + 1
          /\ sbch'[Len(sbch')].kind = "ShutdownDataport"
          /\ closers'.send = closers.send + 1 ]_vars


(***************************************************************************)
(* Dataport: the remote-uuid map and the connection table.                 *)
(***************************************************************************)
\* C35: while the gen-server runs, every remote address with a non-empty list
\* of pairs in remoteUuids has a connection in s.conns (so the entries of the
\* connections a close-remote closed are gone, and a later ShutdownDataport
\* event lists pairs of live connections only).
C35_UuidsOnlyOfLiveConnections ==
    actorPc = "running" =>
        \A raddr \in RAddrs : remoteUuids[raddr] # << >> => InConns(conns, raddr)


(***************************************************************************)
(* Dataport: messages of a connection that is gone.                        *)
(***************************************************************************)
\* the gen-server takes a vbmap or vb-control message whose remote address is
\* no longer in s.conns
ActorTakesStaleMessage ==
    /\ \/ ActorStep(serverCmdVbmap)
       \/ ActorStep(serverCmdVbcontrol)
    /\ ~ InConns(conns, Head(reqch).raddr)

\* C36: the gen-server starts a reader only for a remote address of s.conns:
\* handling a vbmap or vb-control message of a connection that was closed and
\* removed before, it starts no reader task (none that runs, none that ends
\* the process) and remoteUuids gains nothing for that remote address.
C36_NoReaderForClosedConnection ==
    [][ ActorTakesStaleMessage =>
          /\ readers' = readers
          /\ ~ crashed'
          /\ remoteUuids'[Head(reqch).raddr] = remoteUuids[Head(reqch).raddr] ]_vars


(***************************************************************************)
(* Coordinator: the readiness latch.                                       *)
(***************************************************************************)
\* C37: once bootstrap has raised the readiness latch, no NewRequest call
\* stays parked in waitForReady while the coordinator is ready: every call
\* that was blocked on the latch, however many there are, has been woken to
\* go on and enqueue its handle.
C37_NoCallerParkedWhileReady ==
    ready => \A c \in Callers : callerPc[c] # "latch"


(***************************************************************************)
(* Coordinator: Terminate and the Run loop.                                *)
(***************************************************************************)
\* the Run loop starts a cycle: runOnce calls bootstrap
RunBootstraps == runPc = "bootstrap" /\ cycles' = cycles + 1

\* C38: once Terminate has been called after the first bootstrap (it has set
\* done in the coordinator state), the Run loop starts no further cycle: no
\* bootstrap, and so no election and no serving, is performed any more.
C38_NoCycleAfterTerminate ==
    [][ done => ~ RunBootstraps ]_vars


(***************************************************************************)
(* Coordinator: handles in pendings.                                       *)
(***************************************************************************)
\* the handles held in pendings or proposals
Tracked(pend, props) ==
    { pend[id] : id \in ReqIds } \cup { props[t] : t \in Txnids }

\* C39: a handle the leader has moved to pendings is signalled in the end, by
\* its commit or by cleanup, also when another request in flight carries the
\* same request id.  Commit and cleanup signal only the handles they find in
\* pendings and proposals, so a handle held there whose caller is still parked
\* in Wait() must still be held there after every step.
C39_PendingHandleStaysTracked ==
    [][ \A c \in Callers :
          ( /\ c \in Tracked(pendings, proposals)
            /\ callerPc[c] = "waiting"
            /\ callerPc'[c] = "waiting" )
          => c \in Tracked(pendings', proposals') ]_vars


(***************************************************************************)
(* Dataport: after the ShutdownDataport event.                             *)
(***************************************************************************)
\* the gen-server has sent a ShutdownDataport event on the sideband channel
ShutdownEmitted == \E i \in DOMAIN sbch : sbch[i].kind = "ShutdownDataport"

\* reader tasks in all
NumReaders == BagCardinality(readers)

\* C40: after the gen-server has sent a ShutdownDataport event on the sideband
\* channel, no reader publishes a further batch on the mutation channel and
\* the gen-server starts no further reader.
C40_QuietAfterShutdownEvent ==
    [][ ShutdownEmitted =>
          /\ ~ (Len(mutch') > Len(mutch))
          /\ ~ (BagCardinality(readers') > NumReaders) ]_vars
====
